---- MODULE Spec2Model ----
(***************************************************************************)
(* The focus mechanism of active-context-compression: the conversation    *)
(* buffer (Agent.messages), the focus stack, the knowledge ledger, the    *)
(* metrics with their trajectory, and the run loops of FocusAgent and     *)
(* BaselineAgent.                                                          *)
(*                                                                         *)
(* Text is a sequence of tokens; the separator "::" and the marker        *)
(* "## KNOWLEDGE" are tokens of their own, so that str.split, startswith  *)
(* and `in` are computed on the text and not assumed.  Buffer indices are *)
(* the 0-based indices of the Python source: At(msgs, i) is msgs[i].      *)
(* Token counters and wall-clock times are measured values of the         *)
(* collaborators and are left out of the metrics.                         *)
(***************************************************************************)
EXTENDS Integers, Sequences, FiniteSets, TLC

\* ------------------------------------------------------------------ bounds
\* the largest max_steps an agent is constructed with
MaxSteps == 2
\* the most tool calls one model response requests
MaxBatch == 3
\* the most tool calls requested over one run
MaxCalls == 4

VARIABLES
    agent,        \* "focus" (FocusAgent) or "baseline" (BaselineAgent)
    max_steps,    \* Agent.max_steps
    messages,     \* Agent.messages, the conversation buffer
    metrics,      \* Agent.metrics (AgentMetrics)
    focus_stack,  \* FocusAgent._focus_stack
    knowledge,    \* FocusAgent._knowledge
    pc,           \* position of run(): "idle", "llm", "tools", "returned", or
                  \* "raised" when an exception has left run()
    step,         \* the loop variable of `for step in range(self.max_steps)`
    pending,      \* the tool calls of the current response not yet dispatched
    next_id,      \* number of tool-call ids the model has issued to this agent
    result,       \* the TaskResult run() returned
    compress,     \* the locals of the latest _handle_complete_focus call of the run
    _cwd,         \* BashTool._cwd, the tracked working directory
    disk,         \* the file system the SWE-bench tools act on: path -> node
    tool_call,    \* the tool and kwargs of the latest execute() of a SWE-bench tool
    tool_result,  \* the ToolResult that call returned
    runs,         \* run_swebench_v2: the run_agent_for_patch call of each task
    results,      \* run_swebench_v2.main: the `results` dict, by task key
    tmp,          \* the temporary directory: workspace name -> its working tree
    max_workers,  \* args.max_workers, the size of the ThreadPoolExecutor
    _tool_calls_since_focus  \* SWEBenchFocusAgent._tool_calls_since_focus

agentvars == <<agent, max_steps, messages, metrics, focus_stack, knowledge, pc,
               step, pending, next_id, result, compress>>
toolvars == <<_cwd, disk, tool_call, tool_result>>
poolvars == <<runs, results, tmp, max_workers>>
swevars == <<_tool_calls_since_focus>>

vars == <<agentvars, toolvars, poolvars, swevars>>

\* ------------------------------------------------------------ text helpers
\* s.startswith(p)
StartsWith(s, p) == Len(s) >= Len(p) /\ SubSeq(s, 1, Len(p)) = p

\* tok in s
Contains(s, tok) == \E i \in 1..Len(s) : s[i] = tok

\* the first position of tok in s (Contains(s, tok) holds)
IndexOf(s, tok) == CHOOSE i \in 1..Len(s) :
                       s[i] = tok /\ \A j \in 1..(i - 1) : s[j] # tok

\* the characters of a text: every token stands for itself but "::", which
\* is two colons
RECURSIVE Expand(_)
Expand(s) ==
    IF s = <<>> THEN <<>>
    ELSE (IF Head(s) = "::" THEN <<":", ":">> ELSE <<Head(s)>>) \o Expand(Tail(s))

\* the tokens of a run of characters: two colons in a row, read from the
\* left, are the token "::"
RECURSIVE Canon(_)
Canon(c) ==
    IF c = <<>> THEN <<>>
    ELSE IF Len(c) >= 2 /\ c[1] = ":" /\ c[2] = ":"
         THEN <<"::">> \o Canon(SubSeq(c, 3, Len(c)))
         ELSE <<c[1]>> \o Canon(Tail(c))

\* the positions at which p occurs in c
Occurs(c, p) ==
    {i \in 1..(Len(c) - Len(p) + 1) : SubSeq(c, i, i + Len(p) - 1) = p}

\* s.find(p) + 1: the first position at which p occurs in c, 0 if none
Find(c, p) ==
    IF Occurs(c, p) = {} THEN 0
    ELSE CHOOSE i \in Occurs(c, p) : \A j \in Occurs(c, p) : i <= j

\* c.split(p, maxsplit) on characters, each part given as tokens; i is the
\* position of the first p in c
RECURSIVE SplitAt(_, _, _, _)
SplitAt(c, p, i, maxsplit) ==
    IF maxsplit = 0 \/ i = 0
    THEN <<Canon(c)>>
    ELSE <<Canon(SubSeq(c, 1, i - 1))>> \o
         SplitAt(SubSeq(c, i + Len(p), Len(c)), p,
                 Find(SubSeq(c, i + Len(p), Len(c)), p), maxsplit - 1)

SplitChars(c, p, maxsplit) == SplitAt(c, p, Find(c, p), maxsplit)

\* s.split(sep, maxsplit) for a separator that is one token of one character
RECURSIVE SplitTokens(_, _, _)
SplitTokens(s, sep, maxsplit) ==
    IF maxsplit = 0 \/ ~Contains(s, sep)
    THEN <<s>>
    ELSE LET i == IndexOf(s, sep)
         IN  <<SubSeq(s, 1, i - 1)>> \o
             SplitTokens(SubSeq(s, i + 1, Len(s)), sep, maxsplit - 1)

\* s.split(sep, maxsplit): the leftmost occurrences of sep among the
\* characters of s
Split(s, sep, maxsplit) ==
    IF Expand(<<sep>>) = <<sep>>
    THEN SplitTokens(s, sep, maxsplit)
    ELSE SplitChars(Expand(s), Expand(<<sep>>), maxsplit)

Whitespace == {"\n", "\n\n", " "}

\* s.rstrip()
RECURSIVE RStrip(_)
RStrip(s) == IF s # <<>> /\ s[Len(s)] \in Whitespace
             THEN RStrip(SubSeq(s, 1, Len(s) - 1))
             ELSE s

\* "sep".join(lines)
RECURSIVE Join(_, _)
Join(lines, sep) ==
    IF lines = <<>> THEN <<>>
    ELSE IF Len(lines) = 1 THEN lines[1]
    ELSE lines[1] \o <<sep>> \o Join(Tail(lines), sep)

\* str(i) for the small numbers the ledger numbers its entries with
Str(i) == IF i <= 9 THEN <<"0", "1", "2", "3", "4", "5", "6", "7", "8", "9">>[i + 1]
          ELSE "many"

\* --------------------------------------------------------------- messages
Message(role, content, tool_calls, tool_call_id, name) ==
    [role |-> role, content |-> content, tool_calls |-> tool_calls,
     tool_call_id |-> tool_call_id, name |-> name]

\* dataclass defaults of Message: no tool calls, tool_call_id None, name None
NoId == 0
PlainMessage(role, content) == Message(role, content, <<>>, NoId, "None")

\* msgs[i] with the source's 0-based index
At(msgs, i) == msgs[i + 1]

\* variant: the message is inserted before the last turn of the buffer
_add_message_BeforeLast(msgs, message) ==
    IF msgs = <<>> THEN <<message>>
    ELSE SubSeq(msgs, 1, Len(msgs) - 1) \o <<message, msgs[Len(msgs)]>>

\* Agent._add_message: self.messages.append(message)
_add_message(msgs, message) == Append(msgs, message)

StepSnapshot(s, message_count, compressions_so_far) ==
    [step |-> s, message_count |-> message_count,
     compressions_so_far |-> compressions_so_far]

\* variant: the trajectory keeps one snapshot per step number, a snapshot
\* with the step number of the last one replacing it
RecordSnapshot_PerStep(m, s, msgs) ==
    LET snap == StepSnapshot(s, Len(msgs), m.compressions)
        t == m.trajectory
    IN  [m EXCEPT !.trajectory =
            IF t # <<>> /\ t[Len(t)].step = s
            THEN [t EXCEPT ![Len(t)] = snap]
            ELSE Append(t, snap)]

\* self.metrics.trajectory.append(StepSnapshot(step=s, ...))
RecordSnapshot(m, s, msgs) ==
    [m EXCEPT !.trajectory =
        Append(@, StepSnapshot(s, Len(msgs), m.compressions))]

AgentMetrics == [llm_calls |-> 0, tool_calls |-> 0, compressions |-> 0,
                 messages_dropped |-> 0, trajectory |-> <<>>]

ToolResult(success, output, error, is_compression) ==
    [success |-> success, output |-> output, error |-> error,
     is_compression |-> is_compression]

\* ------------------------------------------------------------- focus tools
FOCUS_START == <<"FOCUS_START", "::">>
FOCUS_COMPLETE == <<"FOCUS_COMPLETE", "::">>

StartFocusTool(arguments) ==
    ToolResult(TRUE,
               FOCUS_START \o arguments.description \o <<"::">> \o arguments.goal,
               <<>>, FALSE)

CompleteFocusTool(arguments) ==
    ToolResult(TRUE,
               FOCUS_COMPLETE \o arguments.outcome \o <<"::">> \o
                   arguments.learnings \o <<"::">> \o arguments.next_action,
               <<>>, FALSE)

\* variant: the tag alone makes a FOCUS_START signal
parse_focus_start_TagOnly(output) ==
    IF StartsWith(output, FOCUS_START)
    THEN LET parts == Split(output, "::", 2)
         IN  [some |-> TRUE, description |-> parts[2],
              goal |-> IF Len(parts) = 3 THEN parts[3] ELSE <<>>]
    ELSE [some |-> FALSE]

\* None is [some |-> FALSE]
parse_focus_start(output) ==
    IF StartsWith(output, FOCUS_START)
    THEN LET parts == Split(output, "::", 2)
         IN  IF Len(parts) = 3
             THEN [some |-> TRUE, description |-> parts[2], goal |-> parts[3]]
             ELSE [some |-> FALSE]
    ELSE [some |-> FALSE]

parse_focus_complete(output) ==
    IF StartsWith(output, FOCUS_COMPLETE)
    THEN LET parts == Split(output, "::", 3)
         IN  IF Len(parts) >= 3
             THEN [some |-> TRUE, outcome |-> parts[2], learnings |-> parts[3],
                   next_action |-> IF Len(parts) > 3 THEN parts[4] ELSE <<>>]
             ELSE [some |-> FALSE]
    ELSE [some |-> FALSE]

FocusState(description, goal, start_message_index) ==
    [description |-> description, goal |-> goal,
     start_message_index |-> start_message_index]

KnowledgeEntry(focus_description, focus_goal, outcome, learnings) ==
    [focus_description |-> focus_description, focus_goal |-> focus_goal,
     outcome |-> outcome, learnings |-> learnings]

\* -------------------------------------------------------- knowledge ledger
outcome_emoji(outcome) ==
    IF outcome = <<"success">> THEN "check"
    ELSE IF outcome = <<"partial">> THEN "~"
    ELSE IF outcome = <<"blocked">> THEN "x"
    ELSE IF outcome = <<"abandoned">> THEN "->"
    ELSE "?"

KNOWLEDGE_MARKER == "## KNOWLEDGE"

\* the five lines _build_knowledge_section appends for entry number i
EntryLines(i, entry) ==
    << <<"### ", Str(i), ". [", outcome_emoji(entry.outcome), "] ">> \o
           entry.focus_description,
       <<"**Goal:** ">> \o entry.focus_goal,
       <<"**Outcome:** ">> \o entry.outcome,
       <<"**Learnings:** ">> \o entry.learnings,
       <<>> >>

\* variant: only the newest entry is listed
KnowledgeLines_Newest(ledger, i) ==
    IF i > Len(ledger) THEN <<>>
    ELSE EntryLines(Len(ledger), ledger[Len(ledger)])

RECURSIVE KnowledgeLines(_, _)
KnowledgeLines(ledger, i) ==
    IF i > Len(ledger) THEN <<>>
    ELSE EntryLines(i, ledger[i]) \o KnowledgeLines(ledger, i + 1)

_build_knowledge_section(ledger) ==
    IF ledger = <<>> THEN <<>>
    ELSE Join(<< <<KNOWLEDGE_MARKER, " (Preserved from previous investigations)",
                   "\n">> >> \o KnowledgeLines(ledger, 1), "\n")

\* variant: the section is appended to the system turn as it is, an earlier
\* section staying in place
_rebuild_messages_with_knowledge_Appending(msgs, ledger) ==
    IF Len(msgs) < 2 THEN msgs
    ELSE [msgs EXCEPT ![1] =
             PlainMessage("system", At(msgs, 0).content \o <<"\n", "\n">> \o
                                    _build_knowledge_section(ledger))]

_rebuild_messages_with_knowledge(msgs, ledger) ==
    IF Len(msgs) < 2 THEN msgs
    ELSE LET content == At(msgs, 0).content
             stripped == IF Contains(content, KNOWLEDGE_MARKER)
                         THEN RStrip(Split(content, KNOWLEDGE_MARKER, -1)[1])
                         ELSE content
             section == _build_knowledge_section(ledger)
             system_content == IF section # <<>>
                               THEN stripped \o <<"\n", "\n">> \o section
                               ELSE stripped
         IN  [msgs EXCEPT ![1] = PlainMessage("system", system_content)]

\* ------------------------------------------------------- safe truncation
min_safe == 2

\* variant: any tool-result turn counts as the end of its group
RECURSIVE WalkBackwards_AnyTool(_, _)
WalkBackwards_AnyTool(msgs, i) ==
    IF i < min_safe THEN min_safe
    ELSE IF i >= Len(msgs) THEN WalkBackwards_AnyTool(msgs, i - 1)
    ELSE IF At(msgs, i).role = "user" THEN i + 1
    ELSE IF At(msgs, i).role = "tool" THEN i + 1
    ELSE WalkBackwards_AnyTool(msgs, i - 1)

\* the body of `for i in range(target_index, min_safe - 1, -1)`, from i down
RECURSIVE WalkBackwards(_, _)
WalkBackwards(msgs, i) ==
    IF i < min_safe THEN min_safe
    ELSE IF i >= Len(msgs) THEN WalkBackwards(msgs, i - 1)
    ELSE IF At(msgs, i).role = "user" THEN i + 1
    ELSE IF At(msgs, i).role = "tool"
            /\ (i + 1 >= Len(msgs) \/ At(msgs, i + 1).role # "tool")
         THEN i + 1
    ELSE WalkBackwards(msgs, i - 1)

_find_safe_truncation_point(msgs, target_index) ==
    IF target_index <= min_safe THEN min_safe
    ELSE WalkBackwards(msgs, target_index)

\* ------------------------------------------------------------------ inputs
\* the system prompt ends with a newline (the closing line of the f-string)
SystemPrompt == <<"You are an expert software engineer.", "\n">>
Task == <<"task">>

StartArgs == {[description |-> <<"A">>, goal |-> <<"ga">>],
              [description |-> <<"B">>, goal |-> <<"gb">>]}
CompleteArgs == {[outcome |-> <<"success">>, learnings |-> <<"X">>,
                  next_action |-> <<>>],
                 [outcome |-> <<"blocked">>, learnings |-> <<"Y">>,
                  next_action |-> <<"n">>]}
OtherArgs == {[command |-> <<"ls">>]}

\* what the model may request: name and arguments of a tool call
Requests ==
    {[name |-> "start_focus", arguments |-> a] : a \in StartArgs} \cup
    {[name |-> "complete_focus", arguments |-> a] : a \in CompleteArgs} \cup
    {[name |-> "bash", arguments |-> a] : a \in OtherArgs}

\* the batches of n requests, with ids first + 1 .. first + n
Batches(n, first) ==
    {[i \in 1..n |-> [id |-> first + i, name |-> b[i].name,
                      arguments |-> b[i].arguments]] : b \in [1..n -> Requests]}

ResponseTexts == {<<"TASK_COMPLETE">>, <<"working">>}

\* the assistant messages _call_llm may return
Responses ==
    {Message("assistant", text, calls, NoId, "None") :
        text \in ResponseTexts,
        calls \in UNION {Batches(n, next_id) :
                            n \in 0..(IF MaxCalls - next_id < MaxBatch
                                      THEN MaxCalls - next_id ELSE MaxBatch)}}

\* ------------------------------------------------- the SWE-bench tools' world
\* A path is a string written as its sequence of characters, so that
\* str.startswith and Path.resolve are computed on it.
workspace_root == <<"/", "w">>

\* the longest file text a create call carries
MaxText == 3

\* the characters of file texts, and the texts of at most n of them
Chars == {"a", "\n"}
Texts(n) == UNION {[1..k -> Chars] : k \in 0..n}

Absent == [kind |-> "absent", content |-> <<>>]
Dir == [kind |-> "dir", content |-> <<>>]
File(content) == [kind |-> "file", content |-> content]

\* the file system when the tools are constructed: the workspace /w with a
\* directory a and a file r, a directory /w2 beside it with a file f, and /t;
\* /w/f does not exist yet
Workspace ==
    (<<"/", "w">> :> Dir) @@
    (<<"/", "w", "/", "a">> :> Dir) @@
    (<<"/", "w", "/", "r">> :> File(<<"a">>)) @@
    (<<"/", "w", "/", "f">> :> Absent) @@
    (<<"/", "w", "2">> :> Dir) @@
    (<<"/", "w", "2", "/", "f">> :> File(<<"a">>)) @@
    (<<"/", "t">> :> Dir)

\* /w/l is a symbolic link to /t
Link == <<"/", "w", "/", "l">>
LinkTarget == <<"/", "t">>

Node(f, p) == IF p \in DOMAIN f THEN f[p] ELSE Absent

\* the components of a path: "/w/f" gives "", "w", "f"
Components(p) == Split(p, "/", Len(p))

\* "." and empty components dropped, ".." takes the component before it
RECURSIVE Normalize(_, _)
Normalize(comps, acc) ==
    IF comps = <<>> THEN acc
    ELSE LET c == Head(comps)
         IN  IF c = <<>> \/ c = <<".">> THEN Normalize(Tail(comps), acc)
             ELSE IF c = <<".", ".">>
             THEN Normalize(Tail(comps),
                            IF acc = <<>> THEN acc
                            ELSE SubSeq(acc, 1, Len(acc) - 1))
             ELSE Normalize(Tail(comps), Append(acc, c))

RECURSIVE PathOf(_)
PathOf(comps) ==
    IF comps = <<>> THEN <<>>
    ELSE <<"/">> \o Head(comps) \o PathOf(Tail(comps))

\* Path.resolve() of an absolute path: normalised, symbolic links followed
resolve(p) ==
    LET comps == Normalize(Components(p), <<>>)
        n == IF comps = <<>> THEN <<"/">> ELSE PathOf(comps)
    IN  IF n = Link \/ StartsWith(n, Link \o <<"/">>)
        THEN LinkTarget \o SubSeq(n, Len(Link) + 1, Len(n))
        ELSE n

\* root / path: an absolute path replaces the root
JoinPath(root, path) ==
    IF path # <<>> /\ path[1] = "/" THEN path ELSE root \o <<"/">> \o path

\* Path.name and Path.parent
PathName(p) == LET comps == Normalize(Components(p), <<>>)
               IN  IF comps = <<>> THEN <<>> ELSE comps[Len(comps)]
PathParent(p) == LET comps == Normalize(Components(p), <<>>)
                 IN  IF Len(comps) <= 1 THEN <<"/">>
                     ELSE PathOf(SubSeq(comps, 1, Len(comps) - 1))

\* os.path.isdir, Path.exists, Path.is_file
isdir(f, p) == Node(f, resolve(p)).kind = "dir"
exists(f, p) == Node(f, p).kind # "absent"
is_file(f, p) == Node(f, p).kind = "file"

\* Path.read_text(): text mode with universal newlines
read_text(content) ==
    [i \in 1..Len(content) |-> IF content[i] = "\r\n" THEN "\n" ELSE content[i]]

\* Path.write_text(content): on POSIX the text is written as it is
write_text(f, p, content) ==
    [q \in DOMAIN f \cup {p} |-> IF q = p THEN File(content) ELSE Node(f, q)]

\* len(text): "\r\n" is two characters
RECURSIVE CharLen(_)
CharLen(text) ==
    IF text = <<>> THEN 0
    ELSE (IF Head(text) = "\r\n" THEN 2 ELSE 1) + CharLen(Tail(text))

\* str.splitlines(keepends=True)
RECURSIVE SplitLines(_)
SplitLines(text) ==
    IF text = <<>> THEN <<>>
    ELSE IF \E i \in 1..Len(text) : text[i] \in {"\n", "\r\n"}
    THEN LET i == CHOOSE i \in 1..Len(text) :
                      /\ text[i] \in {"\n", "\r\n"}
                      /\ \A j \in 1..(i - 1) : text[j] \notin {"\n", "\r\n"}
         IN  <<SubSeq(text, 1, i)>> \o SplitLines(SubSeq(text, i + 1, Len(text)))
    ELSE <<text>>

\* "".join(f"{i+1:4d} | {line}" for i, line in enumerate(lines)), from line i
RECURSIVE Numbered(_, _)
Numbered(lines, i) ==
    IF lines = <<>> THEN <<>>
    ELSE <<"   ", Str(i), " | ">> \o Head(lines) \o Numbered(Tail(lines), i + 1)

\* str.count(sub) for a non-empty sub: occurrences that do not overlap
RECURSIVE count(_, _)
count(text, sub) ==
    IF Len(text) < Len(sub) THEN 0
    ELSE IF StartsWith(text, sub)
    THEN 1 + count(SubSeq(text, Len(sub) + 1, Len(text)), sub)
    ELSE count(Tail(text), sub)

\* str.replace(old, new, 1) when old occurs in text
RECURSIVE replace(_, _, _)
replace(text, old, new) ==
    IF StartsWith(text, old)
    THEN new \o SubSeq(text, Len(old) + 1, Len(text))
    ELSE <<Head(text)>> \o replace(Tail(text), old, new)

Failure(error) == ToolResult(FALSE, <<>>, error, FALSE)
Success(output) == ToolResult(TRUE, output, <<>>, FALSE)
NoToolResult == Failure(<<"no call yet">>)
NoToolCall == [tool |-> "none"]

\* s.strip()
RECURSIVE LStrip(_)
LStrip(s) == IF s # <<>> /\ s[1] \in Whitespace THEN LStrip(Tail(s)) ELSE s
Strip(s) == LStrip(RStrip(s))

\* "".join(parts)
RECURSIVE Concat(_)
Concat(parts) == IF parts = <<>> THEN <<>> ELSE Head(parts) \o Concat(Tail(parts))

CWD_MARKER == "__CWD__"

\* What the shell does with `command` in directory cwd, up to the trailer
\* that execute() appends: the text it prints, the directory it is in when
\* the trailer runs (<<>> when the command leaves the shell before it), its
\* exit status and the file system it leaves.
sh(f, cwd, command) ==
    LET here == [out |-> <<>>, err |-> <<>>, end |-> cwd, code |-> 0, fs |-> f,
                 timeout |-> FALSE]
    IN  IF command.op = "cd"
        THEN IF isdir(f, command.arg)
             THEN [here EXCEPT !.end = command.arg]
             ELSE [here EXCEPT !.err = <<"cd: No such file or directory", "\n">>,
                               !.code = 1]
        ELSE IF command.op = "echo"
        THEN [here EXCEPT !.out = command.arg \o <<"\n">>]
        ELSE IF command.op = "false" THEN [here EXCEPT !.code = 1]
        ELSE IF command.op = "echo; false"
        THEN [here EXCEPT !.out = command.arg \o <<"\n">>, !.code = 1]
        ELSE IF command.op = "exit" THEN [here EXCEPT !.end = <<>>]
        ELSE IF command.op = "rm"
        THEN [here EXCEPT !.fs = [q \in DOMAIN f |->
                 IF q = resolve(JoinPath(cwd, command.arg)) /\ is_file(f, q)
                 THEN Absent ELSE f[q]]]
        ELSE IF command.op = "write"
        THEN LET q == resolve(JoinPath(cwd, command.arg))
             IN  IF Node(f, q).kind = "dir"
                 THEN [here EXCEPT !.err = <<"Is a directory", "\n">>, !.code = 1]
                 ELSE [here EXCEPT !.fs = write_text(f, q, <<"a", "\n">>)]
        ELSE IF command.op = "sleep" THEN [here EXCEPT !.timeout = TRUE]
        ELSE here

\* stdout of the full command: the command's own text, then the echo of
\* "__CWD__$(pwd)__CWD__" when the trailer runs
stdout_of(run) ==
    run.out \o (IF run.end = <<>> THEN <<>>
                ELSE <<CWD_MARKER>> \o run.end \o <<CWD_MARKER, "\n">>)

\* the containment test of execute(): str(path).startswith(str(root))
Within(path, root) == StartsWith(path, root)

\* the directory execute() tracks when the text between the markers is
\* new_cwd
TrackedCwd(fs, cwd, new_cwd) ==
    IF /\ new_cwd # <<>> /\ isdir(fs, new_cwd)
       /\ Within(resolve(new_cwd), workspace_root)
    THEN resolve(new_cwd) ELSE cwd

\* stdout and stderr combined
CombinedOutput(shown, err) ==
    IF err # <<>>
    THEN IF shown # <<>> THEN shown \o <<"\n">> \o err ELSE err
    ELSE shown

\* the rest of execute() once the process has ended; parts is stdout split
\* at the markers, which has three parts or more only when the marker is in it
AfterProcess(cwd, run, stdout_str, parts) ==
    LET output == CombinedOutput(
                      Strip(IF Len(parts) >= 3
                            THEN parts[1] \o Concat(SubSeq(parts, 3, Len(parts)))
                            ELSE stdout_str),
                      Strip(run.err))
    IN  IF run.timeout
        THEN [fs |-> run.fs, cwd |-> cwd,
              result |-> Failure(<<"Command timed out">>)]
        ELSE [fs |-> run.fs,
              cwd |-> IF Len(parts) >= 3
                      THEN TrackedCwd(run.fs, cwd, Strip(parts[2]))
                      ELSE cwd,
              result |-> IF run.code = 0 THEN Success(output)
                         ELSE ToolResult(FALSE, output,
                                  <<"Exit code: ", Str(run.code)>>, FALSE)]

\* the process has ended with this stdout
WithStdout(cwd, run, stdout_str) ==
    AfterProcess(cwd, run, stdout_str,
                 Split(stdout_str, CWD_MARKER, Len(stdout_str)))

\* the process running the command and the trailer
WithRun(cwd, run) == WithStdout(cwd, run, stdout_of(run))

\* BashTool.execute: the ToolResult, the tracked directory and the file system
BashTool_execute(f, cwd, kwargs) ==
    IF kwargs.command.op = ""
    THEN [fs |-> f, cwd |-> cwd, result |-> Failure(<<"Empty command">>)]
    ELSE WithRun(cwd, sh(f, cwd, kwargs.command))

\* StrReplaceEditorTool._resolve_path: the resolved path, and the error when
\* its string does not begin with the string of the workspace root
_resolve_path(path) ==
    LET full_path == resolve(JoinPath(workspace_root, path))
    IN  [full_path |-> full_path,
         error |-> IF ~StartsWith(full_path, workspace_root)
                   THEN <<"Path traversal not allowed">> ELSE <<>>]

\* the editor commands: the ToolResult returned and the file system left
_view(f, full_path) ==
    [fs |-> f,
     result |->
        IF ~exists(f, full_path)
        THEN Failure(<<"File not found: ">> \o PathName(full_path))
        ELSE IF ~is_file(f, full_path)
        THEN Failure(<<"Not a file: ">> \o PathName(full_path))
        ELSE Success(Numbered(SplitLines(read_text(f[full_path].content)), 1))]

\* variant: create writes the file whether or not it exists
_create_Overwrite(f, full_path, content) ==
    IF Node(f, PathParent(full_path)).kind = "file"
    THEN [fs |-> f, result |-> Failure(<<"[Errno 17] File exists">>)]
    ELSE [fs |-> write_text(f, full_path, content),
          result |-> Success(<<"Created ">> \o PathName(full_path) \o
                             <<" (", Str(CharLen(content)), " bytes)">>)]

_create(f, full_path, content) ==
    IF exists(f, full_path)
    THEN [fs |-> f,
          result |-> Failure(<<"File already exists: ">> \o
                             PathName(full_path) \o
                             <<". Use str_replace to edit.">>)]
    ELSE IF Node(f, PathParent(full_path)).kind = "file"
    THEN \* parent.mkdir(parents=True, exist_ok=True) raises FileExistsError
         [fs |-> f, result |-> Failure(<<"[Errno 17] File exists">>)]
    ELSE [fs |-> write_text(f, full_path, content),
          result |-> Success(<<"Created ">> \o PathName(full_path) \o
                             <<" (", Str(CharLen(content)), " bytes)">>)]

_str_replace(f, full_path, old_str, new_str) ==
    IF ~exists(f, full_path)
    THEN [fs |-> f,
          result |-> Failure(<<"File not found: ">> \o PathName(full_path))]
    ELSE IF old_str = <<>>
    THEN [fs |-> f,
          result |-> Failure(<<"old_str is required for str_replace">>)]
    ELSE IF ~is_file(f, full_path)
    THEN \* read_text() raises IsADirectoryError
         [fs |-> f, result |-> Failure(<<"[Errno 21] Is a directory">>)]
    ELSE LET content == read_text(f[full_path].content)
             n == count(content, old_str)
         IN  IF n = 0
             THEN [fs |-> f,
                   result |-> Failure(<<"old_str not found in ">> \o
                                      PathName(full_path))]
             ELSE IF n > 1
             THEN [fs |-> f,
                   result |-> Failure(<<"old_str found ", Str(n), " times in ">>
                                      \o PathName(full_path))]
             ELSE [fs |-> write_text(f, full_path,
                                     replace(content, old_str, new_str)),
                   result |-> Success(<<"Replaced ",
                                        Str(Len(SplitLines(old_str))),
                                        " line(s) in ">> \o PathName(full_path))]

\* StrReplaceEditorTool.execute
StrReplaceEditorTool_execute(f, kwargs) ==
    IF kwargs.path = <<>>
    THEN [fs |-> f, result |-> Failure(<<"Path is required">>)]
    ELSE LET r == _resolve_path(kwargs.path)
         IN  IF r.error # <<>> THEN [fs |-> f, result |-> Failure(r.error)]
             ELSE IF kwargs.command = "view" THEN _view(f, r.full_path)
             ELSE IF kwargs.command = "create"
             THEN _create(f, r.full_path, kwargs.file_text)
             ELSE IF kwargs.command = "str_replace"
             THEN _str_replace(f, r.full_path, kwargs.old_str, kwargs.new_str)
             ELSE [fs |-> f,
                   result |-> Failure(<<"Unknown command: ", kwargs.command>>)]

\* ------------------------------------------------------- tool dispatch
\* the results a caller-provided tool (bash) may return
OtherResults == {ToolResult(TRUE, <<"ok">>, <<>>, FALSE),
                 ToolResult(FALSE, <<>>, <<"failed">>, FALSE)}

\* the command line of a bash call, read by the shell: `echo text` and
\* `echo text ; false`
Shell(command) ==
    IF Len(command) >= 2 /\ SubSeq(command, Len(command) - 1, Len(command)) = <<";", "false">>
    THEN [op |-> "echo; false", arg |-> SubSeq(command, 2, Len(command) - 2)]
    ELSE [op |-> "echo", arg |-> Tail(command)]

\* BaselineAgent is constructed with the caller's tools; FocusAgent.__init__
\* extends them with get_focus_tools()
ToolNames(a) == IF a = "focus" THEN {"bash", "start_focus", "complete_focus"}
                ELSE {"bash"}

\* Agent._execute_tool: the ToolResults a call may produce
_execute_tool(a, call) ==
    IF call.name \notin ToolNames(a)
    THEN {ToolResult(FALSE, <<>>, <<"Unknown tool: ", call.name>>, FALSE)}
    ELSE IF call.name = "start_focus" THEN {StartFocusTool(call.arguments)}
    ELSE IF call.name = "complete_focus" THEN {CompleteFocusTool(call.arguments)}
    ELSE IF Head(call.arguments.command) = "echo"
    THEN {BashTool_execute(disk, _cwd,
                           [command |-> Shell(call.arguments.command)]).result}
    ELSE OtherResults

\* metrics after Agent._execute_tool: known tools are counted
CountTool(a, call, m) ==
    IF call.name \in ToolNames(a)
    THEN [m EXCEPT !.tool_calls = @ + 1] ELSE m

\* the tool message run() appends for a dispatched call
ToolMessage(call, r) ==
    Message("tool", IF r.success THEN r.output ELSE <<"Error: ">> \o r.error,
            <<>>, call.id, call.name)

\* ------------------------------------------------------------------- state
NoResult == [returned |-> FALSE, success |-> FALSE, output |-> <<>>,
             error |-> "None"]
TaskResult(success, output, error) ==
    [returned |-> TRUE, success |-> success, output |-> output, error |-> error]

NoCompress == [called |-> FALSE, description |-> <<>>, truncate_to |-> 0,
               safe_point |-> 0, messages_to_drop |-> 0, len_before |-> 0]

\* the agent after __init__
Init ==
    /\ agent \in {"focus", "baseline"}
    /\ max_steps \in 0..MaxSteps
    /\ messages = <<>>
    /\ metrics = AgentMetrics
    /\ focus_stack = <<>>
    /\ knowledge = <<>>
    /\ pc = "idle"
    /\ step = 0
    /\ pending = <<>>
    /\ next_id = 0
    /\ result = NoResult
    /\ compress = NoCompress
    /\ _cwd = workspace_root
    /\ disk = Workspace
    /\ tool_call = NoToolCall
    /\ tool_result = NoToolResult
    /\ runs = <<>>
    /\ results = <<>>
    /\ tmp = <<>>
    /\ max_workers = 0
    /\ _tool_calls_since_focus = 0

\* run() up to the loop: reset() and the two opening messages
RunStart ==
    /\ pc = "idle"
    /\ messages' = _add_message(
                       _add_message(<<>>, PlainMessage("system", SystemPrompt)),
                       PlainMessage("user", Task))
    /\ metrics' = AgentMetrics
    /\ focus_stack' = <<>>
    /\ knowledge' = <<>>
    /\ step' = 0
    /\ pc' = "llm"
    /\ UNCHANGED <<agent, max_steps, pending, next_id, result, compress>>
    /\ UNCHANGED <<toolvars, poolvars, swevars>>

\* variant: the nudge is sent in the model's own voice
Nudge_Assistant ==
    PlainMessage("assistant",
        <<"Continue working on the task. Use tools to make progress.">>)

\* the synthetic turn sent when a response neither acts nor completes
Nudge == PlainMessage("user",
             <<"Continue working on the task. Use tools to make progress.">>)

\* variant: the requested actions are looked at before the completion signal
CallLLM_ToolsFirst ==
    /\ pc = "llm"
    /\ step < max_steps
    /\ \E response \in Responses :
        LET msgs == _add_message(messages, response)
            m == RecordSnapshot([metrics EXCEPT !.llm_calls = @ + 1], step, msgs)
        IN  /\ metrics' = m
            /\ next_id' = next_id + Len(response.tool_calls)
            /\ IF response.tool_calls # <<>>
               THEN /\ messages' = msgs
                    /\ pending' = response.tool_calls
                    /\ pc' = "tools"
                    /\ UNCHANGED <<step, result>>
               ELSE IF Contains(response.content, "TASK_COMPLETE")
               THEN /\ messages' = msgs
                    /\ result' = TaskResult(TRUE, response.content, "None")
                    /\ pc' = "returned"
                    /\ UNCHANGED <<step, pending>>
               ELSE /\ messages' = _add_message(msgs, Nudge)
                    /\ step' = step + 1
                    /\ UNCHANGED <<pc, pending, result>>
    /\ UNCHANGED <<agent, max_steps, focus_stack, knowledge, compress>>
    /\ UNCHANGED <<toolvars, poolvars, swevars>>

\* one pass of the loop body up to the dispatch of the first tool call:
\* the LLM call, the response appended, the snapshot, the TASK_COMPLETE check
\* and, with no tool calls, the nudge
CallLLM ==
    /\ pc = "llm"
    /\ step < max_steps
    /\ \E response \in Responses :
        LET msgs == _add_message(messages, response)
            m == RecordSnapshot([metrics EXCEPT !.llm_calls = @ + 1], step, msgs)
        IN  /\ metrics' = m
            /\ next_id' = next_id + Len(response.tool_calls)
            /\ IF Contains(response.content, "TASK_COMPLETE")
               THEN /\ messages' = msgs
                    /\ result' = TaskResult(TRUE, response.content, "None")
                    /\ pc' = "returned"
                    /\ UNCHANGED <<step, pending>>
               ELSE IF response.tool_calls # <<>>
               THEN /\ messages' = msgs
                    /\ pending' = response.tool_calls
                    /\ pc' = "tools"
                    /\ UNCHANGED <<step, result>>
               ELSE /\ messages' = _add_message(msgs, Nudge)
                    /\ step' = step + 1
                    /\ UNCHANGED <<pc, pending, result>>
    /\ UNCHANGED <<agent, max_steps, focus_stack, knowledge, compress>>
    /\ UNCHANGED <<toolvars, poolvars, swevars>>

\* variant: the step counter is not advanced after a batch
NextCall_SameStep ==
    /\ pending' = Tail(pending)
    /\ IF Tail(pending) = <<>>
       THEN pc' = "llm" /\ UNCHANGED step
       ELSE UNCHANGED <<step, pc>>

\* the end of one iteration of `for tool_call in response.tool_calls`: the
\* next call of the batch, or the next step of the outer loop
NextCall ==
    /\ pending' = Tail(pending)
    /\ IF Tail(pending) = <<>>
       THEN step' = step + 1 /\ pc' = "llm"
       ELSE UNCHANGED <<step, pc>>

\* BaselineAgent.run: a tool call is executed and its result appended
BaselineTool ==
    /\ pc = "tools"
    /\ agent = "baseline"
    /\ LET call == Head(pending)
       IN  \E r \in _execute_tool(agent, call) :
            /\ metrics' = CountTool(agent, call, metrics)
            /\ messages' = _add_message(messages, ToolMessage(call, r))
    /\ NextCall
    /\ UNCHANGED <<agent, max_steps, focus_stack, knowledge, next_id, result,
                   compress>>
    /\ UNCHANGED <<toolvars, poolvars, swevars>>

\* variant: the focus agent appends the results of successful calls only
FocusTool_SuccessOnly ==
    /\ pc = "tools"
    /\ agent = "focus"
    /\ LET call == Head(pending)
       IN  \E r \in _execute_tool(agent, call) :
            /\ ~(r.success /\ r.output # <<>>
                 /\ (parse_focus_start(r.output).some
                     \/ parse_focus_complete(r.output).some))
            /\ metrics' = CountTool(agent, call, metrics)
            /\ messages' = IF r.success
                           THEN _add_message(messages, ToolMessage(call, r))
                           ELSE messages
    /\ NextCall
    /\ UNCHANGED <<agent, max_steps, focus_stack, knowledge, next_id, result,
                   compress>>
    /\ UNCHANGED <<toolvars, poolvars, swevars>>

\* FocusAgent: a tool call whose result is no focus signal; the result is
\* returned as it is and appended
FocusTool ==
    /\ pc = "tools"
    /\ agent = "focus"
    /\ LET call == Head(pending)
       IN  \E r \in _execute_tool(agent, call) :
            /\ ~(r.success /\ r.output # <<>>
                 /\ (parse_focus_start(r.output).some
                     \/ parse_focus_complete(r.output).some))
            /\ metrics' = CountTool(agent, call, metrics)
            /\ messages' = _add_message(messages, ToolMessage(call, r))
    /\ NextCall
    /\ UNCHANGED <<agent, max_steps, focus_stack, knowledge, next_id, result,
                   compress>>
    /\ UNCHANGED <<toolvars, poolvars, swevars>>

\* variant: the marker is anchored after the start_focus result
_handle_start_focus_AfterResult(stack, msgs, description, goal) ==
    Append(stack, FocusState(description, goal, Len(msgs) + 1))

\* _handle_start_focus: the marker pushed, anchored at the buffer length
_handle_start_focus(stack, msgs, description, goal) ==
    Append(stack, FocusState(description, goal, Len(msgs)))

\* FocusAgent: a tool call whose result is a FOCUS_START signal
StartFocus ==
    /\ pc = "tools"
    /\ agent = "focus"
    /\ LET call == Head(pending)
       IN  \E r \in _execute_tool(agent, call) :
            /\ r.success /\ r.output # <<>>
            /\ parse_focus_start(r.output).some
            /\ LET fs == parse_focus_start(r.output)
                   started == ToolResult(TRUE,
                       <<"Focus started: ">> \o fs.description \o
                       <<"\n", "Goal: ">> \o fs.goal \o
                       <<"\n\n", "Proceeding with investigation...">>,
                       <<>>, FALSE)
               IN  /\ focus_stack' = _handle_start_focus(focus_stack, messages,
                                         fs.description, fs.goal)
                   /\ metrics' = CountTool(agent, call, metrics)
                   /\ messages' = _add_message(messages,
                                      ToolMessage(call, started))
    /\ NextCall
    /\ UNCHANGED <<agent, max_steps, knowledge, next_id, result, compress>>
    /\ UNCHANGED <<toolvars, poolvars, swevars>>

\* variant: completing with no focus open reported as a success
NoActiveFocus_Success ==
    ToolResult(TRUE, <<"No active focus to complete.">>, <<>>, FALSE)

\* the result of _handle_complete_focus when the stack is empty
NoActiveFocus ==
    ToolResult(FALSE, <<>>,
               <<"No active focus to complete. Use start_focus first.">>, FALSE)

\* FocusAgent: a FOCUS_COMPLETE signal with no focus on the stack; the failed
\* result is appended like any other
CompleteFocusNoActive ==
    /\ pc = "tools"
    /\ agent = "focus"
    /\ LET call == Head(pending)
       IN  \E r \in _execute_tool(agent, call) :
            /\ r.success /\ r.output # <<>>
            /\ ~parse_focus_start(r.output).some
            /\ parse_focus_complete(r.output).some
            /\ focus_stack = <<>>
            /\ metrics' = CountTool(agent, call, metrics)
            /\ messages' = _add_message(messages,
                               ToolMessage(call, NoActiveFocus))
    /\ NextCall
    /\ UNCHANGED <<agent, max_steps, focus_stack, knowledge, next_id, result,
                   compress>>
    /\ UNCHANGED <<toolvars, poolvars, swevars>>

\* variant: the continuation never names a next action
Continuation_NoNext(focus, focus_data) ==
    PlainMessage("user",
        <<"Focus completed: ">> \o focus.description \o
        <<"\n\n", "Outcome: ">> \o focus_data.outcome \o
        <<"\n\n", "Your learnings have been saved to the KNOWLEDGE section above.",
          "\n\n", "What would you like to do next?">>)

\* the continuation message of _handle_complete_focus
Continuation(focus, focus_data) ==
    PlainMessage("user",
        <<"Focus completed: ">> \o focus.description \o
        <<"\n\n", "Outcome: ">> \o focus_data.outcome \o
        <<"\n\n", "Your learnings have been saved to the KNOWLEDGE section above.",
          "\n\n">> \o
        (IF focus_data.next_action # <<>>
         THEN <<"Next: ">> \o focus_data.next_action
         ELSE <<"What would you like to do next?">>))

\* variant: a compression counts as one discarded turn
CountCompression_One(m, messages_to_drop) ==
    IF messages_to_drop > 0
    THEN [m EXCEPT !.messages_dropped = @ + 1,
                   !.compressions = @ + 1]
    ELSE m

\* metrics after the `if messages_to_drop > 0` block
CountCompression(m, messages_to_drop) ==
    IF messages_to_drop > 0
    THEN [m EXCEPT !.messages_dropped = @ + messages_to_drop,
                   !.compressions = @ + 1]
    ELSE m

\* variant: the slice ends one turn early
Truncate_OneShort(msgs, safe_point) ==
    IF Len(msgs) - safe_point > 0 THEN SubSeq(msgs, 1, safe_point - 1) ELSE msgs

\* the buffer after the `if messages_to_drop > 0` block
Truncate(msgs, safe_point) ==
    IF Len(msgs) - safe_point > 0 THEN SubSeq(msgs, 1, safe_point) ELSE msgs

\* variant: the oldest focus is taken (pop(0))
PoppedFocus_Oldest(stack) == stack[1]

\* the focus _handle_complete_focus pops, and the stack it leaves
PoppedFocus(stack) == stack[Len(stack)]
\* variant: completing a focus closes every open focus
PoppedStack_Clear(stack) == <<>>

PoppedStack(stack) == SubSeq(stack, 1, Len(stack) - 1)

\* variant: the loop over the batch goes on after a compression
Abandon_NextCall == NextCall

\* `break` out of the batch on is_compression, then `continue`: the rest of the
\* batch is left undispatched and the next step of the outer loop begins
Abandon ==
    /\ pending' = <<>>
    /\ step' = step + 1
    /\ pc' = "llm"

\* FocusAgent: a FOCUS_COMPLETE signal with a focus on the stack:
\* _handle_complete_focus, then `break` and `continue` in run()
CompleteFocus ==
    /\ pc = "tools"
    /\ agent = "focus"
    /\ LET call == Head(pending)
       IN  \E r \in _execute_tool(agent, call) :
            /\ r.success /\ r.output # <<>>
            /\ ~parse_focus_start(r.output).some
            /\ parse_focus_complete(r.output).some
            /\ focus_stack # <<>>
            /\ LET focus_data == parse_focus_complete(r.output)
                   focus == PoppedFocus(focus_stack)
                   entry == KnowledgeEntry(focus.description, focus.goal,
                                focus_data.outcome, focus_data.learnings)
                   ledger == Append(knowledge, entry)
                   truncate_to == focus.start_message_index
                   safe_point == _find_safe_truncation_point(messages, truncate_to)
                   messages_to_drop == Len(messages) - safe_point
                   m == CountCompression(CountTool(agent, call, metrics),
                                         messages_to_drop)
                   rebuilt == _rebuild_messages_with_knowledge(
                                  Truncate(messages, safe_point), ledger)
               IN  /\ focus_stack' = PoppedStack(focus_stack)
                   /\ knowledge' = ledger
                   /\ metrics' = RecordSnapshot(m, m.llm_calls, rebuilt)
                   /\ messages' = _add_message(rebuilt,
                                      Continuation(focus, focus_data))
                   /\ compress' = [called |-> TRUE,
                                   description |-> focus.description,
                                   truncate_to |-> truncate_to,
                                   safe_point |-> safe_point,
                                   messages_to_drop |-> messages_to_drop,
                                   len_before |-> Len(messages)]
    /\ Abandon
    /\ UNCHANGED <<agent, max_steps, next_id, result>>
    /\ UNCHANGED <<toolvars, poolvars, swevars>>

\* the loop ran max_steps times without TASK_COMPLETE
MaxStepsReached ==
    /\ pc = "llm"
    /\ step >= max_steps
    /\ result' = TaskResult(FALSE,
                            <<"Max steps reached without completing task.">>,
                            "max_steps_exceeded")
    /\ pc' = "returned"
    /\ UNCHANGED <<agent, max_steps, messages, metrics, focus_stack, knowledge,
                   step, pending, next_id, compress>>
    /\ UNCHANGED <<toolvars, poolvars, swevars>>

Next ==
    \/ RunStart
    \/ CallLLM
    \/ BaselineTool
    \/ FocusTool
    \/ StartFocus
    \/ CompleteFocusNoActive
    \/ CompleteFocus
    \/ MaxStepsReached

Spec == Init /\ [][Next]_vars

\* ------------------------------------------------- faults and later runs
\* _call_llm raises (provider or transport error): llm_calls is counted before
\* the request is sent, and nothing in run() catches the exception
LLMRaises ==
    /\ pc = "llm"
    /\ step < max_steps
    /\ metrics' = [metrics EXCEPT !.llm_calls = @ + 1]
    /\ pc' = "raised"
    /\ UNCHANGED <<agent, max_steps, messages, focus_stack, knowledge, step,
                   pending, next_id, result, compress>>
    /\ UNCHANGED <<toolvars, poolvars, swevars>>

\* tool.execute(**arguments) raises: Agent._execute_tool has counted the call
\* and neither it nor run() catches the exception
ToolRaises ==
    /\ pc = "tools"
    /\ Head(pending).name \in ToolNames(agent)
    /\ metrics' = CountTool(agent, Head(pending), metrics)
    /\ pc' = "raised"
    /\ UNCHANGED <<agent, max_steps, messages, focus_stack, knowledge, step,
                   pending, next_id, result, compress>>
    /\ UNCHANGED <<toolvars, poolvars, swevars>>

\* variant: reset() leaves the ledger and the focus stack as they are
RunAgain_KeepFocus ==
    /\ pc \in {"returned", "raised"}
    /\ messages' = _add_message(
                       _add_message(<<>>, PlainMessage("system", SystemPrompt)),
                       PlainMessage("user", Task))
    /\ metrics' = AgentMetrics
    /\ step' = 0
    /\ pending' = <<>>
    /\ compress' = NoCompress
    /\ result' = NoResult
    /\ pc' = "llm"
    /\ UNCHANGED <<agent, max_steps, focus_stack, knowledge, next_id>>
    /\ UNCHANGED <<toolvars, poolvars, swevars>>

\* run() called again on an agent whose earlier run has returned or raised:
\* reset() and the two opening messages; the model goes on numbering its
\* tool calls
RunAgain ==
    /\ pc \in {"returned", "raised"}
    /\ messages' = _add_message(
                       _add_message(<<>>, PlainMessage("system", SystemPrompt)),
                       PlainMessage("user", Task))
    /\ metrics' = AgentMetrics
    /\ focus_stack' = <<>>
    /\ knowledge' = <<>>
    /\ step' = 0
    /\ pending' = <<>>
    /\ compress' = NoCompress
    /\ result' = NoResult
    /\ pc' = "llm"
    /\ UNCHANGED <<agent, max_steps, next_id>>
    /\ UNCHANGED <<toolvars, poolvars, swevars>>

LifecycleNext ==
    \/ Next
    \/ LLMRaises
    \/ ToolRaises
    \/ RunAgain

\* runs with failing collaborators, and several runs of one agent
Lifecycle == Init /\ [][LifecycleNext]_vars

\* ------------------------------------------------------ the editor at work
EditorPaths == {<<"f">>,                                \* a file in the workspace
                <<"a">>,                                \* a directory
                <<"r", "/", "x">>,                      \* below a regular file
                <<".", ".", "/", "w", "2", "/", "f">>,  \* in the directory beside
                <<"/", "t", "/", "f">>,                 \* absolute, outside
                <<>>}                                   \* no path given

OldStrs == {<<>>, <<"a">>, <<"a", "a">>, <<"\n">>, <<"\r\n">>}
NewStrs == {<<>>, <<"b">>}

EditorCall(command, path, file_text, old_str, new_str) ==
    [tool |-> "str_replace_editor", command |-> command, path |-> path,
     file_text |-> file_text, old_str |-> old_str, new_str |-> new_str]

\* the texts a create call may carry: the short texts with "\n" line
\* endings and one text with a "\r\n" line ending
CreateTexts == Texts(MaxText) \cup {<<"a", "\r\n", "a">>}

\* the kwargs the model may pass: every text for the file f, one choice for
\* the other paths
EditorCalls ==
    {EditorCall("create", <<"f">>, t, <<>>, <<>>) : t \in CreateTexts} \cup
    {EditorCall("create", p, <<"a">>, <<>>, <<>>) : p \in EditorPaths} \cup
    {EditorCall("str_replace", <<"f">>, <<>>, o, n) :
        o \in OldStrs, n \in NewStrs} \cup
    {EditorCall("str_replace", p, <<>>, <<"a">>, <<"b">>) : p \in EditorPaths} \cup
    {EditorCall("view", p, <<>>, <<>>, <<>>) : p \in EditorPaths} \cup
    {EditorCall("undo", <<"f">>, <<>>, <<>>, <<>>)}

\* one call of StrReplaceEditorTool.execute(**kwargs)
EditorExecute ==
    /\ \E kwargs \in EditorCalls :
        LET r == StrReplaceEditorTool_execute(disk, kwargs)
        IN  /\ disk' = r.fs
            /\ tool_result' = r.result
            /\ tool_call' = kwargs
    /\ UNCHANGED <<_cwd, agentvars, poolvars, swevars>>

\* -------------------------------------------------------- the shell at work
\* the directories a command may change to: the root, a directory in it, the
\* link in it, the directory beside it, /t and one that does not exist
CdTargets == {workspace_root, <<"/", "w", "/", "a">>, Link, <<"/", "w", "2">>,
              <<"/", "t">>, <<"/", "n">>}

BashCommand(op, arg) == [op |-> op, arg |-> arg]

\* the kwargs the model may pass
BashCalls ==
    {[tool |-> "bash", command |-> c] : c \in
        {BashCommand("cd", d) : d \in CdTargets} \cup
        {BashCommand("echo", t) : t \in
            {<<"x">>,
             <<CWD_MARKER>> \o workspace_root \o <<CWD_MARKER>>,
             <<CWD_MARKER>> \o <<"/", "t">> \o <<CWD_MARKER>>}} \cup
        {BashCommand("rm", <<"f">>), BashCommand("write", <<"f">>),
         BashCommand("false", <<>>),
         BashCommand("exit", <<>>), BashCommand("sleep", <<>>),
         BashCommand("", <<>>)}}

\* one call of BashTool.execute(**kwargs)
BashExecute ==
    /\ \E kwargs \in BashCalls :
        LET r == BashTool_execute(disk, _cwd, kwargs)
        IN  /\ _cwd' = r.cwd
            /\ disk' = r.fs
            /\ tool_result' = r.result
            /\ tool_call' = kwargs
    /\ UNCHANGED <<agentvars, poolvars, swevars>>

\* the tools constructed for a workspace and called in any order
ToolsInit == Init /\ agent = "focus" /\ max_steps = MaxSteps

\* a BashTool, and a StrReplaceEditorTool, called any number of times
Bash == ToolsInit /\ [][BashExecute]_vars
Editor == ToolsInit /\ [][EditorExecute]_vars

\* ------------------------------------------------- signals from any tool
\* what the shell may be asked to print: a well-formed and a malformed
\* FOCUS_START line, a well-formed and a malformed FOCUS_COMPLETE line, and
\* a line with the tag not at its beginning
Echoed == {FOCUS_START \o <<"B", "::", "gb">>,
           FOCUS_START \o <<"B">>,
           FOCUS_COMPLETE \o <<"success", "::", "X">>,
           FOCUS_COMPLETE \o <<"x">>,
           <<"x ">> \o FOCUS_START \o <<"B", "::", "gb">>}

\* the requests of a model that also prints signal lines through bash; the
\* command may print and then fail
SignalRequests ==
    {[name |-> "start_focus", arguments |-> [description |-> <<"A">>,
                                            goal |-> <<"ga">>]],
     [name |-> "complete_focus",
      arguments |-> [outcome |-> <<"success">>, learnings |-> <<"X">>,
                     next_action |-> <<>>]]} \cup
    {[name |-> "bash", arguments |-> [command |-> <<"echo">> \o t]] :
        t \in Echoed} \cup
    {[name |-> "bash", arguments |-> [command |-> <<"echo">> \o t \o <<";", "false">>]] :
        t \in {FOCUS_COMPLETE \o <<"success", "::", "X">>}}

\* a request with the id the model gives it
Numbered_call(request, id) ==
    [id |-> id, name |-> request.name, arguments |-> request.arguments]

\* the assistant messages of a signalling model: one request, or a pair while
\* the model has calls left
SignalResponses ==
    {Message("assistant", <<"working">>, calls, NoId, "None") :
        calls \in
            {<<Numbered_call(a, next_id + 1)>> : a \in SignalRequests} \cup
            (IF next_id + 1 < MaxCalls
             THEN {<<Numbered_call(a, next_id + 1), Numbered_call(b, next_id + 2)>> :
                      a \in SignalRequests, b \in SignalRequests}
             ELSE {})}

\* the LLM call of run() when the response carries tool calls
SignalCallLLM ==
    /\ pc = "llm"
    /\ step < max_steps
    /\ next_id < MaxCalls
    /\ \E response \in SignalResponses :
        LET msgs == _add_message(messages, response)
            m == RecordSnapshot([metrics EXCEPT !.llm_calls = @ + 1], step, msgs)
        IN  /\ metrics' = m
            /\ next_id' = next_id + Len(response.tool_calls)
            /\ messages' = msgs
            /\ pending' = response.tool_calls
            /\ pc' = "tools"
    /\ UNCHANGED <<step, result>>
    /\ UNCHANGED <<agent, max_steps, focus_stack, knowledge, compress>>
    /\ UNCHANGED <<toolvars, poolvars, swevars>>

SignalsNext ==
    \/ RunStart
    \/ SignalCallLLM
    \/ FocusTool
    \/ StartFocus
    \/ CompleteFocusNoActive
    \/ CompleteFocus
    \/ MaxStepsReached

\* a FocusAgent whose bash tool is the BashTool of the workspace
Signals == ToolsInit /\ [][SignalsNext]_vars

\* --------------------------------------------------- one batch more
\* a model that opens focus A, closes a focus or runs bash, in batches one
\* longer than those of Spec
NestedRequests ==
    {[name |-> "start_focus", arguments |-> [description |-> <<"A">>,
                                            goal |-> <<"ga">>]],
     [name |-> "complete_focus",
      arguments |-> [outcome |-> <<"success">>, learnings |-> <<"X">>,
                     next_action |-> <<>>]],
     [name |-> "bash", arguments |-> [command |-> <<"ls">>]]}

NestedResponses ==
    {Message("assistant", <<"working">>, calls, NoId, "None") :
        calls \in UNION {
            {[i \in 1..n |-> Numbered_call(b[i], next_id + i)] :
                b \in [1..n -> NestedRequests]} :
            n \in 1..(IF MaxCalls - next_id < MaxBatch
                      THEN MaxCalls + 1 - next_id ELSE MaxBatch + 1)}}

\* the LLM call of run() when the response carries tool calls
NestedCallLLM ==
    /\ pc = "llm"
    /\ step < max_steps
    /\ next_id < MaxCalls + 1
    /\ \E response \in NestedResponses :
        LET msgs == _add_message(messages, response)
            m == RecordSnapshot([metrics EXCEPT !.llm_calls = @ + 1], step, msgs)
        IN  /\ metrics' = m
            /\ next_id' = next_id + Len(response.tool_calls)
            /\ messages' = msgs
            /\ pending' = response.tool_calls
            /\ pc' = "tools"
    /\ UNCHANGED <<step, result>>
    /\ UNCHANGED <<agent, max_steps, focus_stack, knowledge, compress>>
    /\ UNCHANGED <<toolvars, poolvars, swevars>>

NestedNext ==
    \/ RunStart
    \/ NestedCallLLM
    \/ FocusTool
    \/ StartFocus
    \/ CompleteFocusNoActive
    \/ CompleteFocus
    \/ MaxStepsReached

\* a FocusAgent constructed with one step more than the agents of Spec
NestedInit ==
    /\ agent = "focus"
    /\ max_steps = MaxSteps + 1
    /\ messages = <<>>
    /\ metrics = AgentMetrics
    /\ focus_stack = <<>>
    /\ knowledge = <<>>
    /\ pc = "idle"
    /\ step = 0
    /\ pending = <<>>
    /\ next_id = 0
    /\ result = NoResult
    /\ compress = NoCompress
    /\ _cwd = workspace_root
    /\ disk = Workspace
    /\ tool_call = NoToolCall
    /\ tool_result = NoToolResult
    /\ runs = <<>>
    /\ results = <<>>
    /\ tmp = <<>>
    /\ max_workers = 0
    /\ _tool_calls_since_focus = 0

Nested == NestedInit /\ [][NestedNext]_vars

\* ------------------------------------------------- the two signals alone
\* the most tokens in one field of a signal
MaxField == 2

\* the texts of at most n tokens over a letter, a colon and the separator,
\* each written with its tokens in the form Canon gives
FieldTexts(n) ==
    {t \in UNION {[1..k -> {"a", ":", "::"}] : k \in 0..n} :
        Canon(Expand(t)) = t}

StartFocusCalls ==
    {[tool |-> "start_focus", description |-> d, goal |-> g] :
        d \in FieldTexts(MaxField), g \in FieldTexts(MaxField)}

CompleteFocusCalls ==
    {[tool |-> "complete_focus", outcome |-> o, learnings |-> l,
      next_action |-> n] :
        o \in FieldTexts(MaxField), l \in FieldTexts(MaxField),
        n \in FieldTexts(MaxField)}

\* one call of StartFocusTool.execute(**kwargs)
StartFocusExecute ==
    /\ \E kwargs \in StartFocusCalls :
        /\ tool_result' = StartFocusTool(kwargs)
        /\ tool_call' = kwargs
    /\ UNCHANGED <<_cwd, disk, agentvars, poolvars, swevars>>

\* one call of CompleteFocusTool.execute(**kwargs)
CompleteFocusExecute ==
    /\ \E kwargs \in CompleteFocusCalls :
        /\ tool_result' = CompleteFocusTool(kwargs)
        /\ tool_call' = kwargs
    /\ UNCHANGED <<_cwd, disk, agentvars, poolvars, swevars>>

\* the focus tools called with any arguments, any number of times
RoundTrip == ToolsInit /\ [][StartFocusExecute \/ CompleteFocusExecute]_vars

\* ------------------------------------------------- SWEBenchFocusAgent
\* self._reminder_threshold
_reminder_threshold == 15

FOCUS_REMINDER ==
    <<"REMINDER: You should call complete_focus to compress your context and preserve learnings.">>

SWEBENCH_FOCUS_SYSTEM_PROMPT == <<"You are an expert software engineer tasked with solving a GitHub issue.", "\n">>

SweNudge ==
    PlainMessage("user",
        <<"Continue working on the task. Use the bash, str_replace_editor, or focus tools to make progress.">>)

\* get_swebench_tools(workspace) extended with get_focus_tools(): of the
\* tools the model calls here, those of a FocusAgent constructed with bash
SweTools == "focus"

SweRequest(name) ==
    IF name = "start_focus"
    THEN [name |-> name, arguments |-> [description |-> <<"A">>, goal |-> <<"ga">>]]
    ELSE IF name = "complete_focus"
    THEN [name |-> name,
          arguments |-> [outcome |-> <<"success">>, learnings |-> <<"X">>,
                         next_action |-> <<>>]]
    ELSE [name |-> name, arguments |-> [command |-> <<"echo", "x">>]]

\* the batches the model requests: one focus call, one bash call, or just
\* under half a threshold of bash calls
SweBatches ==
    {<<Numbered_call(SweRequest(n), next_id + 1)>> :
        n \in {"start_focus", "complete_focus", "bash"}} \cup
    {[i \in 1..((_reminder_threshold - 1) \div 2) |->
        Numbered_call(SweRequest("bash"), next_id + i)]}

\* the most tool calls requested over one run of the SWE-bench agent
SweMaxCalls == _reminder_threshold + MaxCalls

SweResponses ==
    {Message("assistant", <<"working">>, calls, NoId, "None") :
        calls \in {b \in SweBatches : next_id + Len(b) <= SweMaxCalls} \cup {<<>>}}
    \cup {Message("assistant", <<"TASK_COMPLETE">>, <<>>, NoId, "None")}

\* run() up to the loop: reset(), _setup_tools() and the two opening messages
SweRunStart ==
    /\ pc = "idle"
    /\ messages' = _add_message(
                       _add_message(<<>>, PlainMessage("system",
                                              SWEBENCH_FOCUS_SYSTEM_PROMPT)),
                       PlainMessage("user", Task))
    /\ metrics' = AgentMetrics
    /\ focus_stack' = <<>>
    /\ knowledge' = <<>>
    /\ _tool_calls_since_focus' = 0
    /\ step' = 0
    /\ pc' = "llm"
    /\ UNCHANGED <<agent, max_steps, pending, next_id, result, compress>>
    /\ UNCHANGED <<toolvars, poolvars>>

\* one pass of the loop of run() up to the tool calls
SweCallLLM ==
    /\ pc = "llm"
    /\ step < max_steps
    /\ \E response \in SweResponses :
        /\ metrics' = RecordSnapshot([metrics EXCEPT !.llm_calls = @ + 1], step,
                                     _add_message(messages, response))
        /\ next_id' = next_id + Len(response.tool_calls)
        /\ IF Contains(response.content, "TASK_COMPLETE")
           THEN /\ messages' = _add_message(messages, response)
                /\ result' = TaskResult(TRUE, response.content, "None")
                /\ pc' = "returned"
                /\ UNCHANGED <<step, pending>>
           ELSE IF response.tool_calls # <<>>
           THEN /\ messages' = _add_message(messages, response)
                /\ pending' = response.tool_calls
                /\ pc' = "tools"
                /\ UNCHANGED <<step, result>>
           ELSE /\ messages' = _add_message(_add_message(messages, response),
                                            SweNudge)
                /\ step' = step + 1
                /\ UNCHANGED <<pc, pending, result>>
    /\ UNCHANGED <<agent, max_steps, focus_stack, knowledge, compress>>
    /\ UNCHANGED <<toolvars, poolvars, swevars>>

\* what _execute_tool_with_focus leaves behind and returns
Handled(msgs, m, stack, ledger, r) ==
    [messages |-> msgs, metrics |-> m, focus_stack |-> stack,
     knowledge |-> ledger, result |-> r]

FocusStarted(fs) ==
    ToolResult(TRUE,
               <<"Focus started: ">> \o fs.description \o
               <<"\n", "Goal: ">> \o fs.goal \o
               <<"\n\n", "Proceeding with investigation...">>,
               <<>>, FALSE)

\* SWEBenchFocusAgent._handle_complete_focus with a focus on the stack
SweCompleted(msgs, m, stack, ledger, focus, focus_data, safe_point) ==
    Handled(_add_message(
                _rebuild_messages_with_knowledge(
                    Truncate(msgs, safe_point),
                    Append(ledger, KnowledgeEntry(focus.description, focus.goal,
                               focus_data.outcome, focus_data.learnings))),
                Continuation(focus, focus_data)),
            RecordSnapshot(CountCompression(m, Len(msgs) - safe_point),
                           m.llm_calls, Truncate(msgs, safe_point)),
            PoppedStack(stack),
            Append(ledger, KnowledgeEntry(focus.description, focus.goal,
                       focus_data.outcome, focus_data.learnings)),
            ToolResult(TRUE, <<"Focus '">> \o focus.description \o
                             <<"' completed.">>, <<>>, TRUE))

\* SWEBenchFocusAgent._execute_tool_with_focus, given the result r of
\* _execute_tool
Swe_execute_tool_with_focus(msgs, m, stack, ledger, r) ==
    IF r.success /\ r.output # <<>> /\ parse_focus_start(r.output).some
    THEN Handled(msgs, m,
                 _handle_start_focus(stack, msgs,
                     parse_focus_start(r.output).description,
                     parse_focus_start(r.output).goal),
                 ledger, FocusStarted(parse_focus_start(r.output)))
    ELSE IF r.success /\ r.output # <<>> /\ parse_focus_complete(r.output).some
    THEN IF stack = <<>>
         THEN Handled(msgs, m, stack, ledger, NoActiveFocus)
         ELSE SweCompleted(msgs, m, stack, ledger, PoppedFocus(stack),
                  parse_focus_complete(r.output),
                  _find_safe_truncation_point(msgs,
                      PoppedFocus(stack).start_message_index))
    ELSE Handled(msgs, m, stack, ledger, r)

\* variant: the results of the focus tools are counted as well
Tracked_All(call, n) == n + 1

\* the counter after the result of a call has been appended
Tracked(call, n) ==
    IF call.name \notin {"start_focus", "complete_focus"} THEN n + 1 ELSE n

\* the buffer at the end of a batch that was not cut short
Reminded(msgs, n) ==
    IF n >= _reminder_threshold
    THEN _add_message(msgs, PlainMessage("user", FOCUS_REMINDER))
    ELSE msgs

\* one pass of `for tool_call in response.tool_calls`, with what follows the
\* loop when the pass is the last one
SweStep(call, h) ==
    /\ metrics' = h.metrics
    /\ focus_stack' = h.focus_stack
    /\ knowledge' = h.knowledge
    /\ IF h.result.is_compression
       THEN /\ _tool_calls_since_focus' = 0
            /\ messages' = h.messages
            /\ pending' = <<>>
            /\ step' = step + 1
            /\ pc' = "llm"
       ELSE /\ _tool_calls_since_focus' = Tracked(call, _tool_calls_since_focus)
            /\ pending' = Tail(pending)
            /\ IF Tail(pending) = <<>>
               THEN /\ messages' =
                          Reminded(_add_message(h.messages,
                                                ToolMessage(call, h.result)),
                                   Tracked(call, _tool_calls_since_focus))
                    /\ step' = step + 1
                    /\ pc' = "llm"
               ELSE /\ messages' = _add_message(h.messages,
                                                ToolMessage(call, h.result))
                    /\ UNCHANGED <<step, pc>>

SweTool ==
    /\ pc = "tools"
    /\ \E r \in _execute_tool(SweTools, Head(pending)) :
          SweStep(Head(pending),
                  Swe_execute_tool_with_focus(messages,
                      CountTool(SweTools, Head(pending), metrics),
                      focus_stack, knowledge, r))
    /\ UNCHANGED <<agent, max_steps, next_id, result, compress>>
    /\ UNCHANGED <<toolvars, poolvars>>

\* the loop ran max_steps times without TASK_COMPLETE
SweMaxStepsReached ==
    /\ pc = "llm"
    /\ step >= max_steps
    /\ result' = TaskResult(FALSE,
                            <<"Max steps reached without completing task.">>,
                            "max_steps_exceeded")
    /\ pc' = "returned"
    /\ UNCHANGED <<agent, max_steps, messages, metrics, focus_stack, knowledge,
                   step, pending, next_id, compress>>
    /\ UNCHANGED <<toolvars, poolvars, swevars>>

SweNext ==
    \/ SweRunStart
    \/ SweCallLLM
    \/ SweTool
    \/ SweMaxStepsReached

\* a SWEBenchFocusAgent with enough steps to pass the threshold, be reminded,
\* complete a focus and go on
SweInit ==
    /\ agent = "swebench_focus"
    /\ max_steps = MaxSteps + 4
    /\ messages = <<>>
    /\ metrics = AgentMetrics
    /\ focus_stack = <<>>
    /\ knowledge = <<>>
    /\ pc = "idle"
    /\ step = 0
    /\ pending = <<>>
    /\ next_id = 0
    /\ result = NoResult
    /\ compress = NoCompress
    /\ _cwd = workspace_root
    /\ disk = Workspace
    /\ tool_call = NoToolCall
    /\ tool_result = NoToolResult
    /\ runs = <<>>
    /\ results = <<>>
    /\ tmp = <<>>
    /\ max_workers = 0
    /\ _tool_calls_since_focus = 0

SweFocus == SweInit /\ [][SweNext]_vars

\* ------------------------------------------------------- claim vocabulary
Last(s) == s[Len(s)]

Max(a, b) == IF a >= b THEN a ELSE b

IsPrefix(s, t) == Len(s) <= Len(t) /\ SubSeq(t, 1, Len(s)) = s

\* run() of the focus agent is about to dispatch a complete_focus request
CompletionDispatched ==
    pc = "tools" /\ agent = "focus" /\ Head(pending).name = "complete_focus"

\* ... with no focus open / with a focus open
FailedCompletion == CompletionDispatched /\ focus_stack = <<>>
SuccessfulCompletion == CompletionDispatched /\ focus_stack # <<>>

\* the buffer is the one the next inference call receives
AtInference == pc = "llm" /\ step < max_steps

\* the assistant turn at index i is followed by exactly the results of its
\* requested actions, in order, and by no further tool-result turn
GroupComplete(msgs, i) ==
    LET calls == At(msgs, i).tool_calls
        n == Len(calls)
    IN  /\ i + n < Len(msgs)
        /\ \A j \in 1..n : /\ At(msgs, i + j).role = "tool"
                           /\ At(msgs, i + j).tool_call_id = calls[j].id
        /\ (i + n + 1 < Len(msgs) => At(msgs, i + n + 1).role # "tool")

ToolPairing(msgs) ==
    \A i \in 0..(Len(msgs) - 1) :
        (At(msgs, i).role = "assistant" /\ At(msgs, i).tool_calls # <<>>)
            => GroupComplete(msgs, i)

\* ------------------------------------------------------------------ claims

\* C1: in every buffer the focus run loop passes to an inference call, each
\* assistant turn with N requested actions is immediately followed by
\* exactly the N tool-result turns of those N ids.
C1_ToolPairing == (agent = "focus" /\ AtInference) => ToolPairing(messages)

\* C2: the truncation index of every focus completion lies between 2 and the
\* buffer length, and the buffer keeps at least two turns, of which turn 0 is
\* the system turn and turn 1 the original task.
C2_ProtectedMinimum ==
    /\ compress.called =>
          /\ min_safe <= compress.safe_point
          /\ compress.safe_point <= compress.len_before
    /\ pc # "idle" =>
          /\ Len(messages) >= 2
          /\ At(messages, 0).role = "system"
          /\ At(messages, 1) = PlainMessage("user", Task)

\* a completion whose backward scan found no safe turn and fell back to the
\* protected minimum, discarding everything after the task turn
C2_Witness ==
    /\ compress.called
    /\ compress.truncate_to > min_safe
    /\ compress.safe_point = min_safe
    /\ compress.messages_to_drop > 0
    /\ Len(messages) = min_safe + 1

\* C3: a complete_focus dispatched with an empty focus stack yields a failed
\* tool result appended as the tool-result turn of the request's id, leaves
\* stack, ledger, compression counters and trajectory alone, and the run goes on.
C3_StackDiscipline ==
    [][FailedCompletion =>
        /\ focus_stack' = focus_stack
        /\ knowledge' = knowledge
        /\ metrics'.compressions = metrics.compressions
        /\ metrics'.messages_dropped = metrics.messages_dropped
        /\ metrics'.trajectory = metrics.trajectory
        /\ Len(messages') = Len(messages) + 1
        /\ IsPrefix(messages, messages')
        /\ Last(messages').role = "tool"
        /\ Last(messages').tool_call_id = Head(pending).id
        /\ StartsWith(Last(messages').content, <<"Error: ">>)
        /\ ~result'.returned
        /\ compress' = compress]_vars

\* the failure of a complete_focus is the last turn of the buffer
C3_Witness ==
    /\ agent = "focus"
    /\ messages # <<>>
    /\ Last(messages).role = "tool"
    /\ Last(messages).name = "complete_focus"
    /\ Last(messages).content = <<"Error: ">> \o NoActiveFocus.error
    /\ focus_stack = <<>>

\* C4: the ledger only grows: every step of a run leaves it a prefix of the new
\* ledger, and a successful complete_focus, and nothing else, appends exactly
\* one entry, built from the popped marker and the payload of the request.
C4_LedgerMonotonic ==
    [][(pc \in {"llm", "tools"}) =>
        /\ IsPrefix(knowledge, knowledge')
        /\ SuccessfulCompletion =>
              knowledge' = Append(knowledge,
                  KnowledgeEntry(Last(focus_stack).description,
                                 Last(focus_stack).goal,
                                 Head(pending).arguments.outcome,
                                 Head(pending).arguments.learnings))
        /\ ~SuccessfulCompletion => knowledge' = knowledge]_vars

\* an entry recorded, with turns discarded, while an older focus of another
\* description was open and stays open
C4_Witness ==
    /\ Len(knowledge) = 1
    /\ Len(focus_stack) = 1
    /\ focus_stack[1].description # knowledge[1].focus_description
    /\ compress.description = knowledge[1].focus_description
    /\ compress.messages_to_drop > 0

\* the cumulative compressions of the trajectory never decrease
NonDecreasing(trajectory) ==
    \A i \in 1..(Len(trajectory) - 1) :
        trajectory[i].compressions_so_far <= trajectory[i + 1].compressions_so_far

\* C5: the cumulative-compressions value recorded along the trajectory never
\* decreases and is one higher after every successful complete_focus, also
\* after one whose safe truncation index equals the buffer length.
C5_TrajectoryConsistency ==
    [][/\ NonDecreasing(metrics'.trajectory)
       /\ SuccessfulCompletion =>
             Last(metrics'.trajectory).compressions_so_far =
                 Last(metrics.trajectory).compressions_so_far + 1]_vars

\* t occurs in s
ContainsText(s, t) ==
    \E i \in 1..(Len(s) - Len(t) + 1) : SubSeq(s, i, i + Len(t) - 1) = t

\* the first response opened one focus, by its only action, on the buffer of
\* the system and task turns; that focus is the only one open and no focus
\* has been completed; its complete_focus is about to be dispatched
SingleFocusCompletion ==
    /\ SuccessfulCompletion
    /\ knowledge = <<>>
    /\ Len(focus_stack) = 1
    /\ focus_stack[1].start_message_index = 3
    /\ Len(At(messages, 2).tool_calls) = 1

\* C6: a focus opened on a buffer of the system and task turns only and
\* completed, after any number of tool-call/result pairs, with learnings X
\* leaves a buffer of length 2 after truncation, a ledger of the one entry
\* with learnings X, and X in the system turn of the next inference call.
C6_SingleFocus ==
    [][SingleFocusCompletion =>
        /\ compress'.len_before - compress'.messages_to_drop = min_safe
        /\ Len(knowledge') = 1
        /\ knowledge'[1].learnings = Head(pending).arguments.learnings
        /\ ContainsText(At(messages', 0).content,
                        Head(pending).arguments.learnings)]_vars

\* C7: closing the inner of two nested focuses pops only the inner marker,
\* the outer marker stays as it was, and the truncation discards no turn at
\* an index below the outer focus's anchor.
C7_NestedFocus ==
    [][(SuccessfulCompletion /\ Len(focus_stack) >= 2) =>
        /\ focus_stack' = SubSeq(focus_stack, 1, Len(focus_stack) - 1)
        /\ compress'.messages_to_drop > 0 =>
              compress'.safe_point >=
                  focus_stack[Len(focus_stack) - 1].start_message_index]_vars

\* C8: the safe truncation point is at or before the target: it is at most
\* max(target, 2).
C8_AtOrBeforeTarget ==
    compress.called =>
        compress.safe_point <= Max(compress.truncate_to, min_safe)

\* the scan of the specification: k = c, c-1, ..., 2, the first k such that
\* turn k-1 is a user turn, or turn k-1 is a tool-result turn and turn k is
\* absent or no tool-result turn; 2 if there is none
RECURSIVE ReferenceScan(_, _)
ReferenceScan(msgs, k) ==
    IF k <= 2 THEN 2
    ELSE IF k - 1 < Len(msgs)
            /\ \/ At(msgs, k - 1).role = "user"
               \/ /\ At(msgs, k - 1).role = "tool"
                  /\ (k >= Len(msgs) \/ At(msgs, k).role # "tool")
         THEN k
    ELSE ReferenceScan(msgs, k - 1)

\* C9: on the buffer and the anchor of every focus completion,
\* _find_safe_truncation_point returns what the scan of the specification returns.
C9_SafeIndexAlgorithm ==
    SuccessfulCompletion =>
        _find_safe_truncation_point(messages,
                                    Last(focus_stack).start_message_index)
        = ReferenceScan(messages, Last(focus_stack).start_message_index)

\* C10: a run none of whose max_steps responses signals completion returns
\* success = false with error max_steps_exceeded after exactly max_steps
\* inference calls, and its trajectory holds max_steps inference snapshots
\* plus one snapshot per successful focus completion (one per ledger entry).
C10_StepLimit ==
    /\ (pc = "returned" /\ ~result.success) =>
          /\ result.error = "max_steps_exceeded"
          /\ metrics.llm_calls = max_steps
          /\ Len(metrics.trajectory) = max_steps + Len(knowledge)
    /\ (pc = "returned" /\ result.success) =>
          Contains(Last(messages).content, "TASK_COMPLETE")
    /\ pc = "llm" => Len(metrics.trajectory) = step + Len(knowledge)

\* a focus run that exhausted its steps after a compression
C10_Witness ==
    /\ pc = "returned"
    /\ result.error = "max_steps_exceeded"
    /\ max_steps = MaxSteps
    /\ knowledge # <<>>
    /\ compress.messages_to_drop > 0

\* the ids of the tool-result turns of a buffer
AnsweredIds(msgs) ==
    {msgs[i].tool_call_id : i \in {j \in 1..Len(msgs) : msgs[j].role = "tool"}}

\* the ids of a sequence of requested actions
IdsOf(calls) == {calls[i].id : i \in 1..Len(calls)}

\* C11: when the result of a dispatched action is a compression signal, no
\* later action of the batch is dispatched, no tool-result turn is appended
\* for the completing action or any later one, and the loop goes to the next
\* inference call.
C11_BatchAbandonment ==
    [][SuccessfulCompletion =>
        /\ pending' = <<>>
        /\ pc' = "llm"
        /\ step' = step + 1
        /\ metrics'.tool_calls = metrics.tool_calls + 1
        /\ metrics'.llm_calls = metrics.llm_calls
        /\ AnsweredIds(messages') \cap IdsOf(pending) = {}
        /\ Last(messages').role = "user"]_vars

\* a completion was the second of three requested actions: the first has its
\* result, the completion and the third have none, and two tools were run
C11_Witness ==
    /\ pc = "llm"
    /\ compress.called
    /\ Len(messages) = 5
    /\ Len(At(messages, 2).tool_calls) = 3
    /\ At(messages, 2).tool_calls[2].name = "complete_focus"
    /\ AnsweredIds(messages) = {At(messages, 2).tool_calls[1].id}
    /\ metrics.tool_calls = 2

\* a run has ended: run() has returned or an exception has left it
RunEnded == pc \in {"returned", "raised"}

\* C12: every run that ends, ends by run() returning a TaskResult, also when
\* the inference call or a tool raises; no exception leaves run().
C12_EveryRunYieldsResult == RunEnded => (pc = "returned" /\ result.returned)

Occurrences(s, tok) == Cardinality({i \in 1..Len(s) : s[i] = tok})

\* C14: after any number of focus completions the system turn is the original
\* system prompt, unaltered, followed (after the blank separator) by the
\* rendering of the current ledger and nothing else; no earlier preamble
\* remains.
C14_PromptPreserved ==
    (agent = "focus" /\ pc # "idle") =>
        LET content == At(messages, 0).content
            section == _build_knowledge_section(knowledge)
        IN  IF knowledge = <<>>
            THEN content = SystemPrompt
            ELSE /\ \/ content = SystemPrompt \o <<"\n", "\n">> \o section
                    \/ content = SystemPrompt \o <<"\n">> \o section
                 /\ Occurrences(content, KNOWLEDGE_MARKER) = 1

\* the second splice: the first preamble was cut off at the marker, the text
\* before it stripped of its trailing newlines, and the new preamble appended
C14_Witness ==
    /\ agent = "focus"
    /\ Len(knowledge) = 2
    /\ At(messages, 0).content =
           SystemPrompt \o <<"\n">> \o _build_knowledge_section(knowledge)

\* the positions of the entry headings of a system turn, and the i-th of them
HeadingPositions(content) == {p \in 1..Len(content) : content[p] = "### "}
Heading(content, i) ==
    CHOOSE p \in HeadingPositions(content) :
        Cardinality({q \in HeadingPositions(content) : q < p}) = i - 1

\* the text of the i-th entry of a system turn: from its heading up to the
\* next heading or the end
EntryText(content, i) ==
    SubSeq(content, Heading(content, i),
           IF i < Cardinality(HeadingPositions(content))
           THEN Heading(content, i + 1) - 1 ELSE Len(content))

\* C15: after k successful completions the preamble of the system turn lists
\* the k ledger entries, each once, in the order of completion, and it is the
\* text rendering the ledger again gives.
C15_PreambleContent ==
    (agent = "focus" /\ pc # "idle") =>
        LET content == At(messages, 0).content
        IN  /\ Cardinality(HeadingPositions(content)) = Len(knowledge)
            /\ \A i \in 1..Len(knowledge) :
                  LET text == EntryText(content, i)
                      entry == knowledge[i]
                  IN  /\ text[2] = Str(i)
                      /\ ContainsText(text, <<"] ">> \o entry.focus_description)
                      /\ ContainsText(text, <<"**Goal:** ">> \o entry.focus_goal)
                      /\ ContainsText(text, <<"**Outcome:** ">> \o entry.outcome)
                      /\ ContainsText(text,
                                      <<"**Learnings:** ">> \o entry.learnings)
            /\ knowledge # <<>> =>
                  SubSeq(content, IndexOf(content, KNOWLEDGE_MARKER), Len(content))
                      = _build_knowledge_section(knowledge)
            /\ knowledge = <<>> => ~Contains(content, KNOWLEDGE_MARKER)

\* two focuses of different descriptions, outcomes and learnings completed
C15_Witness ==
    /\ agent = "focus"
    /\ pc = "llm"
    /\ Len(knowledge) = 2
    /\ knowledge[1].focus_description # knowledge[2].focus_description
    /\ knowledge[1].learnings # knowledge[2].learnings
    /\ Occurrences(At(messages, 0).content, "### ") = 2

C17_ContinuationTurn ==
    [][SuccessfulCompletion =>
        LET u == Last(messages')
            a == Head(pending).arguments
            kept == Len(messages') - 1
        IN  /\ pc' = "llm"
            /\ u.role = "user" /\ u.tool_calls = <<>>
            /\ kept >= min_safe /\ kept <= Len(messages)
            /\ \A i \in 2..kept : messages'[i] = messages[i]
            /\ ContainsText(u.content, <<"Outcome: ">> \o a.outcome)
            /\ Contains(u.content, "Next: ") <=> a.next_action # <<>>
            /\ a.next_action # <<>> =>
                  ContainsText(u.content, <<"Next: ">> \o a.next_action)]_vars

\* the buffer of the next inference call ends with a continuation turn that
\* names a next action
C17_Witness ==
    /\ AtInference
    /\ compress.called
    /\ Last(messages).role = "user"
    /\ StartsWith(Last(messages).content, <<"Focus completed: ">>)
    /\ Contains(Last(messages).content, "Next: ")

\* C18: a run returns success, with the response text as its output, exactly
\* on the first response among its max_steps responses that contains
\* TASK_COMPLETE; it returns right after the snapshot of that response, with
\* no action of the response dispatched, and takes no step afterwards.
C18_CompletionTransition ==
    [][/\ (pc = "llm" /\ step < max_steps) =>
            LET response == messages'[Len(messages) + 1]
            IN  /\ pc' = "returned" <=> Contains(response.content, "TASK_COMPLETE")
                /\ pc' = "returned" =>
                      /\ result' = TaskResult(TRUE, response.content, "None")
                      /\ messages' = Append(messages, response)
                      /\ Last(metrics'.trajectory) =
                             StepSnapshot(step, Len(messages'),
                                          metrics.compressions)
                      /\ metrics'.tool_calls = metrics.tool_calls
       /\ (result'.returned /\ result'.success /\ ~result.returned) =>
            (pc = "llm" /\ step < max_steps)
       /\ pc = "returned" => pc' = "returned"]_vars

\* a run completed by a response that also requested actions, none of which
\* was dispatched, after an earlier step with a tool call
C18_Witness ==
    /\ pc = "returned"
    /\ result.success
    /\ Last(messages).role = "assistant"
    /\ Last(messages).tool_calls # <<>>
    /\ metrics.llm_calls = 2
    /\ metrics.tool_calls = 1

\* what is left of a run: the iterations of the step loop still to begin and,
\* within the current one, the requested actions still to dispatch
Rank ==
    IF pc = "returned" THEN <<0, 0>>
    ELSE IF pc = "idle" THEN <<max_steps + 2, 0>>
    ELSE IF pc = "llm" THEN <<max_steps - step + 1, 0>>
    ELSE <<max_steps - step, Len(pending)>>

\* the lexicographic order of pairs of naturals
LexLess(x, y) == x[1] < y[1] \/ (x[1] = y[1] /\ x[2] < y[2])

\* a step of run() is possible: the guard of one of the actions holds
CanStep ==
    \/ pc = "idle"                                          \* RunStart
    \/ pc = "llm" /\ step >= max_steps                      \* MaxStepsReached
    \/ pc = "llm" /\ step < max_steps /\ Responses # {}     \* CallLLM
    \/ /\ pc = "tools"
       /\ pending # <<>>
       /\ \E r \in _execute_tool(agent, Head(pending)) :
             LET signal == r.success /\ r.output # <<>>
                 start == signal /\ parse_focus_start(r.output).some
                 complete == signal /\ ~parse_focus_start(r.output).some
                             /\ parse_focus_complete(r.output).some
             IN  \/ agent = "baseline"                                \* BaselineTool
                 \/ agent = "focus" /\ ~start /\ ~complete           \* FocusTool
                 \/ agent = "focus" /\ start                         \* StartFocus
                 \/ agent = "focus" /\ complete /\ focus_stack = <<>>
                                                        \* CompleteFocusNoActive
                 \/ agent = "focus" /\ complete /\ focus_stack # <<>>
                                                        \* CompleteFocus

\* C19: provided every call returns, every run ends in success or in
\* max_steps_exceeded: a run that has not returned can always take a step and
\* every step lowers its rank, a pair of naturals in lexicographic order; the
\* inference-call counter never exceeds max_steps and a run ends in
\* max_steps_exceeded only after exactly max_steps calls.
C19_Termination ==
    /\ [](metrics.llm_calls <= max_steps)
    /\ []((pc = "returned" /\ ~result.success) =>
              (result.error = "max_steps_exceeded"
               /\ metrics.llm_calls = max_steps))
    /\ [](Rank[1] >= 0 /\ Rank[2] >= 0)
    /\ [](pc # "returned" => CanStep)
    /\ [][LexLess(Rank', Rank)]_vars

\* a baseline run that used all its steps on tool calls
C19_Witness ==
    /\ agent = "baseline"
    /\ pc = "returned"
    /\ result.error = "max_steps_exceeded"
    /\ metrics.llm_calls = MaxSteps
    /\ metrics.tool_calls = MaxCalls

\* C20: a run started on an agent whose earlier run has ended (returned or
\* raised) begins with the two opening turns only, an empty focus stack, an
\* empty ledger and fresh metrics; the counters of a run count that run only.
C20_RunScopedState ==
    /\ [][(RunEnded /\ pc' # pc) =>
            /\ pc' = "llm" /\ step' = 0
            /\ messages' = <<PlainMessage("system", SystemPrompt),
                             PlainMessage("user", Task)>>
            /\ metrics' = AgentMetrics
            /\ focus_stack' = <<>>
            /\ knowledge' = <<>>]_vars
    /\ [](pc \in {"llm", "tools"} =>
            /\ metrics.llm_calls <= step + 1
            /\ Len(metrics.trajectory) = metrics.llm_calls + Len(knowledge)
            /\ Len(focus_stack) + Len(knowledge) <= metrics.tool_calls
            /\ metrics.compressions <= Len(knowledge))

\* the first inference call of a later run, after earlier runs in which the
\* model had requested every tool call it requests of this agent
C20_Witness ==
    /\ pc = "llm"
    /\ step = 0
    /\ next_id = MaxCalls
    /\ ~result.returned
    /\ Len(messages) = 2
    /\ metrics = AgentMetrics
    /\ focus_stack = <<>> /\ knowledge = <<>>

\* ------------------------------------------------------------------ C21
\* C21: at an inference step, a response with no requested actions and no
\* completion signal is followed by exactly one synthetic user turn and the
\* next step is the next inference call; any other response is appended
\* alone; and no dispatch step appends a user turn that is not a continuation.
C21_Nudge ==
    [][/\ (pc = "llm" /\ step < max_steps) =>
            LET response == messages'[Len(messages) + 1]
            IN  IF /\ response.tool_calls = <<>>
                   /\ ~Contains(response.content, "TASK_COMPLETE")
                THEN /\ Len(messages') = Len(messages) + 2
                     /\ SubSeq(messages', 1, Len(messages)) = messages
                     /\ Last(messages').role = "user"
                     /\ Last(messages').tool_calls = <<>>
                     /\ Last(messages').tool_call_id = NoId
                     /\ pc' = "llm" /\ step' = step + 1
                ELSE messages' = Append(messages, response)
       /\ (pc = "tools" /\ ~SuccessfulCompletion) =>
            Last(messages').role = "tool"]_vars

\* a nudge after a response without actions, at the next inference call
C21_Witness ==
    /\ AtInference
    /\ Len(messages) >= 4
    /\ Last(messages).role = "user"
    /\ StartsWith(Last(messages).content, <<"Continue working on the task. Use tools to make progress.">>)
    /\ messages[Len(messages) - 1].role = "assistant"
    /\ messages[Len(messages) - 1].tool_calls = <<>>

\* ------------------------------------------------------------------ C22
\* the text of the tool-result turn for a result
Surfaced(r) == IF r.success THEN r.output ELSE <<"Error: ">> \o r.error

\* C22: every dispatched action that is not a compression signal appends
\* exactly one tool-result turn with the request's id, carrying the error
\* text when the tool failed or is unknown, the next action of the batch (or
\* the next inference call) follows, and only known tools are counted.
C22_FailedCallsSurfaced ==
    [][(pc = "tools" /\ ~SuccessfulCompletion) =>
        LET call == Head(pending)
            t == Last(messages')
        IN  /\ messages' = Append(messages, t)
            /\ t.role = "tool"
            /\ t.tool_call_id = call.id
            /\ call.name \notin ToolNames(agent) =>
                   t.content = <<"Error: ", "Unknown tool: ", call.name>>
            /\ call.name = "bash" /\ agent = "focus" =>
                   t.content \in {Surfaced(r) : r \in OtherResults}
            /\ FailedCompletion => t.content = Surfaced(NoActiveFocus)
            /\ pending' = Tail(pending)
            /\ pc' \in {"tools", "llm"}
            /\ metrics'.tool_calls = metrics.tool_calls +
                   (IF call.name \in ToolNames(agent) THEN 1 ELSE 0)]_vars

StartDispatched ==
    pc = "tools" /\ agent = "focus" /\ Head(pending).name = "start_focus"

\* the turn at the anchor of focus f is still the result of a start_focus
\* that closed its batch: the turn after it is no tool-result turn
OpeningIntact(msgs, f) ==
    LET a == f.start_message_index
    IN  /\ a + 1 < Len(msgs)
        /\ At(msgs, a).role = "tool"
        /\ At(msgs, a).name = "start_focus"
        /\ At(msgs, a + 1).role # "tool"

CurrentBatch(msgs, call) ==
    CHOOSE i \in 0..(Len(msgs) - 1) :
        /\ At(msgs, i).role = "assistant"
        /\ call.id \in IdsOf(At(msgs, i).tool_calls)

\* C30: when a focus completion discards at least one turn and every group
\* before the current batch was complete, every assistant turn with requested
\* actions in the retained prefix is followed, inside the prefix, by the
\* tool-result turns of all its actions.
C30_NoSplitGroup ==
    [][(/\ SuccessfulCompletion
        /\ Len(messages') - 1 < Len(messages)
        /\ \A i \in 0..(CurrentBatch(messages, Head(pending)) - 1) :
              (At(messages, i).role = "assistant"
               /\ At(messages, i).tool_calls # <<>>) => GroupComplete(messages, i))
       => LET safe_point == Len(messages') - 1
              kept == SubSeq(messages, 1, safe_point)
          IN  /\ \A i \in 1..(safe_point - 1) : At(messages', i) = At(kept, i)
              /\ ToolPairing(kept)]_vars

\* a completion cut the buffer right after a complete group of three results
C30_Witness ==
    /\ pc = "llm"
    /\ compress.called
    /\ compress.messages_to_drop > 0
    /\ compress.safe_point = 6
    /\ Len(messages) = 7
    /\ Len(At(messages, 2).tool_calls) = 3
    /\ ToolPairing(SubSeq(messages, 1, 6))

\* ------------------------------------------------------------------ C25
\* path is the workspace root or lies beneath it
Beneath(path, root) == path = root \/ StartsWith(path, root \o <<"/">>)

\* the latest step was a call of the bash tool whose trailer ran
BashCalled == tool_call'.tool = "bash"

\* C25: after every bash call the tracked directory is the workspace root or
\* beneath it; a command that ends in an existing directory inside the
\* workspace makes it the tracked directory, and a command that ends outside
\* the workspace leaves the tracked directory as it was.
C25_WorkingDirectory ==
    [][BashCalled =>
        LET run == sh(disk, _cwd, tool_call'.command)
            ends == run.end # <<>> /\ ~run.timeout /\ tool_call'.command.op # ""
            where == resolve(run.end)
        IN  /\ Beneath(_cwd', workspace_root)
            /\ (ends /\ isdir(run.fs, run.end) /\ Beneath(where, workspace_root))
                  => _cwd' = where
            /\ (ends /\ ~Beneath(where, workspace_root)) => _cwd' = _cwd]_vars

\* ------------------------------------------------------------------ C26
\* the latest step was a call of the editor with this command
EditorCalled(command) ==
    tool_call'.tool = "str_replace_editor" /\ tool_call'.command = command

\* the file a call names
Named(kwargs) == resolve(JoinPath(workspace_root, kwargs.path))

\* the positions at which sub occurs in text
OccurrencesOf(text, sub) ==
    {i \in 1..(Len(text) - Len(sub) + 1) : SubSeq(text, i, i + Len(sub) - 1) = sub}

\* text with the occurrence of old at position i replaced by new
ReplacedAt(text, i, old, new) ==
    SubSeq(text, 1, i - 1) \o new \o SubSeq(text, i + Len(old), Len(text))

\* C26: str_replace succeeds exactly when the file exists, old_str is not
\* empty and old_str occurs exactly once in the file; then the file is the
\* old text with that occurrence replaced by new_str, and with zero or
\* several occurrences the call fails and the file system is unchanged.
C26_StrReplaceUnique ==
    [][EditorCalled("str_replace") =>
        LET k == tool_call'
            p == Named(k)
            text == Node(disk, p).content
            occ == OccurrencesOf(text, k.old_str)
        IN  /\ tool_result'.success <=>
                  /\ k.path # <<>>
                  /\ is_file(disk, p)
                  /\ k.old_str # <<>>
                  /\ Cardinality(occ) = 1
            /\ tool_result'.success =>
                  /\ \E i \in occ :
                        disk'[p] = File(ReplacedAt(text, i, k.old_str, k.new_str))
                  /\ \A q \in DOMAIN disk : q # p => disk'[q] = disk[q]
            /\ (is_file(disk, p) /\ k.old_str # <<>> /\ Cardinality(occ) # 1) =>
                  ~tool_result'.success /\ disk' = disk]_vars

\* ------------------------------------------------------------------ C27
\* the characters of a view output that are file text: the output without
\* the line-number prefixes
Unnumbered(output) ==
    SelectSeq(output, LAMBDA c : c \in {"a", "b", "\n", "\r\n"})

\* the number of lines of a text
LineCount(text) ==
    Cardinality({i \in 1..Len(text) : text[i] \in {"\n", "\r\n"}}) +
    (IF text # <<>> /\ Last(text) \notin {"\n", "\r\n"} THEN 1 ELSE 0)

\* no directory on the way to path is a regular file
ParentsCanExist(f, path) ==
    \A n \in 1..(Len(path) - 1) :
        path[n + 1] = "/" => Node(f, SubSeq(path, 1, n)).kind # "file"

\* the call before this step created the file this step views
ViewAfterCreate ==
    /\ tool_call.tool = "str_replace_editor"
    /\ tool_call.command = "create"
    /\ tool_result.success
    /\ EditorCalled("view")
    /\ Named(tool_call') = Named(tool_call)

Dispatching == pc = "tools" /\ agent = "focus" /\ pc' # "raised"

\* the result the tool itself returns for the call being dispatched
RawResult == CHOOSE r \in _execute_tool(agent, Head(pending)) : TRUE

\* the result was appended as it is, nothing else touched
Ordinary ==
    /\ messages' = Append(messages, ToolMessage(Head(pending), RawResult))
    /\ focus_stack' = focus_stack
    /\ knowledge' = knowledge

\* the output begins with a reserved tag
Tagged(output) ==
    StartsWith(output, FOCUS_START) \/ StartsWith(output, FOCUS_COMPLETE)

\* the output begins with a reserved tag and has a second separator
WellFormed(output) == Tagged(output) /\ Occurrences(output, "::") >= 2

\* the text between the first and the second separator, and the text after
FirstField(output) ==
    LET rest == Tail(Tail(output))
    IN  SubSeq(rest, 1, IndexOf(rest, "::") - 1)
SecondField(output) ==
    LET rest == Tail(Tail(output))
    IN  SubSeq(rest, IndexOf(rest, "::") + 1, Len(rest))

\* C23 as stated: a result is handled as a signal exactly when it is
\* successful and its output begins with a reserved tag; every other result
\* is appended as it is and changes neither stack nor ledger.
C23_AsStated ==
    [][Dispatching =>
        (~Ordinary <=> (RawResult.success /\ Tagged(RawResult.output)))]_vars

\* C23 amended: a result is handled as a signal exactly when it is
\* successful and its output begins with a reserved tag followed by at least
\* two fields; a well-formed FOCUS_START pushes a marker with the two fields
\* whatever tool produced it, a well-formed FOCUS_COMPLETE pops the stack and
\* appends one ledger entry when a focus is open and changes neither
\* otherwise; every other result is appended as it is, and stack, ledger
\* and the turns before it stay as they were.
C23_SignalByEncoding ==
    [][Dispatching =>
        LET r == RawResult
            signal == r.success /\ WellFormed(r.output)
        IN  /\ ~Ordinary <=> signal
            /\ (signal /\ StartsWith(r.output, FOCUS_START)) =>
                  /\ focus_stack' = Append(focus_stack,
                         FocusState(FirstField(r.output), SecondField(r.output),
                                    Len(messages)))
                  /\ knowledge' = knowledge
                  /\ Len(messages') = Len(messages) + 1
            /\ (signal /\ StartsWith(r.output, FOCUS_COMPLETE)) =>
                  IF focus_stack = <<>>
                  THEN /\ focus_stack' = focus_stack
                       /\ knowledge' = knowledge
                       /\ messages' = Append(messages,
                              ToolMessage(Head(pending), NoActiveFocus))
                  ELSE /\ focus_stack' = PoppedStack(focus_stack)
                       /\ Len(knowledge') = Len(knowledge) + 1
                       /\ Last(knowledge').outcome = FirstField(r.output)]_vars

\* a FOCUS_START line printed by bash opened a focus, and a malformed one
\* before it in the same batch was appended as an ordinary result
C23_Witness ==
    /\ Len(messages) = 5
    /\ At(messages, 3).name = "bash"
    /\ At(messages, 3).content = FOCUS_START \o <<"B">>
    /\ At(messages, 4).name = "bash"
    /\ StartsWith(At(messages, 4).content, <<"Focus started: ">>)
    /\ Len(focus_stack) = 1
    /\ focus_stack[1].description = <<"B">>
    /\ focus_stack[1].start_message_index = 4

\* ------------------------------------------------------- the worker pool
\* run_swebench_v2.main submits one run_agent_for_patch call per task to a
\* ThreadPoolExecutor; each call owns its workspace and its agent, whose
\* loop is abridged here to what a run returns: the edits it left in its
\* workspace and the counters of its metrics.
InstanceIds == <<"i1", "i2", "i3">>
AgentTypeChoices == {<<"baseline">>, <<"focus">>, <<"baseline", "focus">>}
MaxWorkers == 2
\* the most tasks a call of main() prepares
MaxRuns == 2

\* the random suffixes tempfile.mkdtemp may append
Suffixes == {"a", "b"}

\* variant: the workspace is named after the instance alone
mkdtemp_PerInstance(dirs, prefix) == {<<prefix, "a">>}

\* tempfile.mkdtemp(prefix=...): the names of a directory that does not exist
mkdtemp(dirs, prefix) == {<<prefix, x>> : x \in Suffixes} \ DOMAIN dirs

\* shutil.rmtree(workspace, ignore_errors=True)
rmtree(dirs, w) == [d \in DOMAIN dirs \ {w} |-> dirs[d]]

\* a directory created or rewritten
mkdir(dirs, w, tree) == [d \in DOMAIN dirs \cup {w} |-> IF d = w THEN tree ELSE dirs[d]]

NoMetrics == [present |-> FALSE, llm_calls |-> 0, compressions |-> 0,
              knowledge_entries |-> 0]
NoOutcome == [patch |-> <<>>, metrics |-> NoMetrics, error |-> "unset"]
NoWorkspace == <<"none", "none">>

\* the agent of a run after __init__
NewAgent == [messages |-> 0, focus_stack |-> 0, knowledge |-> 0,
             llm_calls |-> 0, compressions |-> 0]

\* _metrics_to_dict of the run's agent
MetricsOf(a) == [present |-> TRUE, llm_calls |-> a.llm_calls,
                 compressions |-> a.compressions,
                 knowledge_entries |-> a.knowledge]

\* the task tuple submitted for an instance and an agent type
QueuedRun(instance, agent_type) ==
    [instance |-> instance, agent_type |-> agent_type, phase |-> "queued",
     workspace |-> NoWorkspace, agent_state |-> NewAgent, replies |-> <<>>,
     outcome |-> NoOutcome]

\* key = f"{instance.instance_id}_{agent_type}"
KeyOf(run) == <<run.instance, "_", run.agent_type>>

\* the calls that hold a worker thread
Active == {i \in 1..Len(runs) : runs[i].phase \in {"setup", "running"}}

\* main(): the tasks of every instance and agent type, submitted in order
Main ==
    /\ runs = <<>>
    /\ \E n \in 1..Len(InstanceIds), types \in AgentTypeChoices,
          w \in 1..MaxWorkers :
        /\ n * Len(types) <= MaxRuns
        /\ max_workers' = w
        /\ runs' = [k \in 1..(n * Len(types)) |->
                       QueuedRun(InstanceIds[((k - 1) \div Len(types)) + 1],
                                 types[((k - 1) % Len(types)) + 1])]
    /\ UNCHANGED <<results, tmp, agentvars, toolvars, swevars>>

\* a worker thread takes the next task of the queue: run_agent_for_patch up
\* to the mkdtemp call
StartRun(i) ==
    /\ runs[i].phase = "queued"
    /\ \A j \in 1..(i - 1) : runs[j].phase # "queued"
    /\ Cardinality(Active) < max_workers
    /\ \E w \in mkdtemp(tmp, runs[i].instance) :
        /\ tmp' = mkdir(tmp, w, <<>>)
        /\ runs' = [runs EXCEPT ![i].phase = "setup", ![i].workspace = w]
    /\ UNCHANGED <<results, max_workers, agentvars, toolvars, swevars>>

\* return from run_agent_for_patch: the tuple, after `finally: rmtree`
Return(i, patch, m, error) ==
    /\ runs' = [runs EXCEPT ![i].phase = "returned",
                            ![i].outcome = [patch |-> patch, metrics |-> m,
                                            error |-> error]]
    /\ tmp' = rmtree(tmp, runs[i].workspace)

\* setup_swebench_workspace, then the agent of the run is constructed
SetupRun(i) ==
    /\ runs[i].phase = "setup"
    /\ \/ /\ runs' = [runs EXCEPT ![i].replies = <<"setup failed">>,
                                 ![i].phase = "returned",
                                 ![i].outcome = [patch |-> <<>>,
                                     metrics |-> NoMetrics,
                                     error |-> "Failed to setup workspace"]]
          /\ tmp' = rmtree(tmp, runs[i].workspace)
       \/ /\ runs' = [runs EXCEPT ![i].phase = "running",
                                 ![i].agent_state = NewAgent]
          /\ tmp' = mkdir(tmp, runs[i].workspace, <<>>)
    /\ UNCHANGED <<results, max_workers, agentvars, toolvars, swevars>>

\* what the model of a run may do in one step of agent.run: finish, fail,
\* or edit a file, which the model of a focus agent does inside a focus
Replies(agent_type) ==
    {"done", "raise"} \cup (IF agent_type = "focus" THEN {"focus"} ELSE {"edit"})

\* `git diff` in the workspace
git_diff(dirs, w) == IF w \in DOMAIN dirs THEN dirs[w] ELSE <<>>

\* one step of agent.run in the run's own event loop: the reply of the model
\* and the tool calls it asks for, on the run's agent and workspace
AgentStep(i) ==
    /\ runs[i].phase = "running"
    /\ runs[i].agent_state.llm_calls < MaxSteps
    /\ \E reply \in Replies(runs[i].agent_type) :
        LET r == runs[i]
            a == r.agent_state
            w == r.workspace
            said == Append(r.replies, reply)
            called == [a EXCEPT !.llm_calls = @ + 1]
        IN  IF reply = "raise"
            THEN \* an exception leaves agent.run: the except clause
                 /\ runs' = [runs EXCEPT ![i].replies = said,
                             ![i].agent_state = called,
                             ![i].phase = "returned",
                             ![i].outcome = [patch |-> <<>>,
                                             metrics |-> NoMetrics,
                                             error |-> "error"]]
                 /\ tmp' = rmtree(tmp, w)
            ELSE IF reply = "done"
            THEN \* TASK_COMPLETE: run() returns, the patch is read
                 /\ runs' = [runs EXCEPT ![i].replies = said,
                             ![i].agent_state = called,
                             ![i].phase = "returned",
                             ![i].outcome = [patch |-> git_diff(tmp, w),
                                             metrics |-> MetricsOf(called),
                                             error |-> "None"]]
                 /\ tmp' = rmtree(tmp, w)
            ELSE IF reply = "edit"
            THEN /\ runs' = [runs EXCEPT ![i].replies = said,
                             ![i].agent_state =
                                 [called EXCEPT !.messages = @ + 2]]
                 /\ tmp' = mkdir(tmp, w, Append(git_diff(tmp, w), r.agent_type))
            ELSE \* a focus opened, an edit made in it, the focus completed
                 /\ runs' = [runs EXCEPT ![i].replies = said,
                             ![i].agent_state =
                                 [called EXCEPT !.knowledge = @ + 1,
                                                !.compressions = @ + 1,
                                                !.messages = @ + 2]]
                 /\ tmp' = mkdir(tmp, w, Append(git_diff(tmp, w), r.agent_type))
    /\ UNCHANGED <<results, max_workers, agentvars, toolvars, swevars>>

\* agent.run returns at max_steps: the patch is read and the call returns
FinishRun(i) ==
    /\ runs[i].phase = "running"
    /\ runs[i].agent_state.llm_calls >= MaxSteps
    /\ Return(i, git_diff(tmp, runs[i].workspace),
              MetricsOf(runs[i].agent_state), "None")
    /\ UNCHANGED <<results, max_workers, agentvars, toolvars, swevars>>

\* main(): as_completed yields a finished future and its tuple is stored
RecordResult(i) ==
    /\ runs[i].phase = "returned"
    /\ results' = [k \in DOMAIN results \cup {KeyOf(runs[i])} |->
                      IF k = KeyOf(runs[i])
                      THEN [instance_id |-> runs[i].instance,
                            agent_type |-> runs[i].agent_type,
                            patch |-> runs[i].outcome.patch,
                            metrics |-> runs[i].outcome.metrics,
                            error |-> runs[i].outcome.error]
                      ELSE results[k]]
    /\ runs' = [runs EXCEPT ![i].phase = "recorded"]
    /\ UNCHANGED <<tmp, max_workers, agentvars, toolvars, swevars>>

PoolNext ==
    \/ Main
    \/ \E i \in 1..Len(runs) : StartRun(i)
    \/ \E i \in 1..Len(runs) : SetupRun(i)
    \/ \E i \in 1..Len(runs) : AgentStep(i)
    \/ \E i \in 1..Len(runs) : FinishRun(i)
    \/ \E i \in 1..Len(runs) : RecordResult(i)

\* the script's main() with its pool of workers
Pool == ToolsInit /\ [][PoolNext]_vars

\* ------------------------------------------------------------------ C24
\* the number of replies of a run that edited a file
EditsOf(replies) ==
    Cardinality({k \in 1..Len(replies) : replies[k] \in {"edit", "focus"}})

\* the tuple run_agent_for_patch returns for a task whose setup and model
\* behave as in `replies` when no other run exists
Alone(agent_type, replies) ==
    IF replies = <<"setup failed">>
    THEN [patch |-> <<>>, metrics |-> NoMetrics,
          error |-> "Failed to setup workspace"]
    ELSE IF replies # <<>> /\ Last(replies) = "raise"
    THEN [patch |-> <<>>, metrics |-> NoMetrics, error |-> "error"]
    ELSE [patch |-> [k \in 1..EditsOf(replies) |-> agent_type],
          metrics |-> [present |-> TRUE, llm_calls |-> Len(replies),
                       compressions |->
                           IF agent_type = "focus" THEN EditsOf(replies) ELSE 0,
                       knowledge_entries |->
                           IF agent_type = "focus" THEN EditsOf(replies) ELSE 0],
          error |-> "None"]

\* every call that has returned returned what it returns alone, every
\* recorded result stands under the key of its own task, and a task that is
\* not recorded yet can still go on
RunsIndependent ==
    /\ \A i \in 1..Len(runs) :
        LET r == runs[i]
            alone == Alone(r.agent_type, r.replies)
        IN  /\ r.phase \in {"returned", "recorded"} => r.outcome = alone
            /\ r.phase = "recorded" =>
                  /\ KeyOf(r) \in DOMAIN results
                  /\ results[KeyOf(r)] =
                         [instance_id |-> r.instance, agent_type |-> r.agent_type,
                          patch |-> alone.patch, metrics |-> alone.metrics,
                          error |-> alone.error]
            /\ \A j \in 1..Len(runs) :
                  j # i => /\ KeyOf(runs[j]) # KeyOf(r)
                           /\ ({i, j} \subseteq Active =>
                                  runs[j].workspace # r.workspace)
    /\ (\E i \in 1..Len(runs) : runs[i].phase # "recorded") =>
          \E i \in 1..Len(runs) :
              \/ runs[i].phase \in {"setup", "running", "returned"}
              \/ runs[i].phase = "queued" /\ Cardinality(Active) < max_workers

\* C24: a step of one run changes no other run's record and no other run's
\* workspace; every run returns what it returns when executed alone,
\* whatever the other runs do meanwhile, and a run that failed keeps no
\* other run from being recorded under its own instance/agent key.
C24_IndependentRuns ==
    [][/\ RunsIndependent'
       /\ runs # <<>> =>
            /\ Len(runs') = Len(runs)
            /\ \A i, j \in 1..Len(runs) :
                  (i # j /\ runs'[i] # runs[i]) =>
                      /\ runs'[j] = runs[j]
                      /\ j \in Active =>
                            /\ runs[j].workspace \in DOMAIN tmp'
                            /\ tmp'[runs[j].workspace] = tmp[runs[j].workspace]]_vars

\* both agents ran on one instance with two workers: the baseline run failed
\* after an edit, the focus run finished with two edits, and both results
\* are recorded
C24_Witness ==
    /\ max_workers = 2
    /\ Len(runs) = 2
    /\ \A i \in 1..2 : runs[i].phase = "recorded" /\ runs[i].instance = "i1"
    /\ runs[1].replies = <<"edit", "raise">>
    /\ runs[2].replies = <<"focus", "focus">>
    /\ DOMAIN results = {<<"i1", "_", "baseline">>, <<"i1", "_", "focus">>}
    /\ results[<<"i1", "_", "baseline">>].error = "error"
    /\ results[<<"i1", "_", "focus">>].patch = <<"focus", "focus">>
    /\ tmp = <<>>

\* ------------------------------------------------------------------ C31
\* the call being dispatched returns a result the agent handles as a
\* FOCUS_START signal / as a FOCUS_COMPLETE signal
StartSignal ==
    /\ pc = "tools" /\ agent = "focus"
    /\ \E r \in _execute_tool(agent, Head(pending)) :
          r.success /\ StartsWith(r.output, FOCUS_START)
          /\ Occurrences(r.output, "::") >= 2
CompleteSignal ==
    /\ pc = "tools" /\ agent = "focus"
    /\ \E r \in _execute_tool(agent, Head(pending)) :
          r.success /\ StartsWith(r.output, FOCUS_COMPLETE)
          /\ Occurrences(r.output, "::") >= 2

\* C31: a run begins with stack and ledger empty; every handled start signal
\* raises stack depth plus ledger length by one, as one push, and no other
\* step changes that sum; the stack changes only by that push and by the pop
\* of a completion signal handled with a focus open, which appends one
\* ledger entry; and the markers left on the stack after a step that
\* shortens the buffer are the markers that were there, unaltered.
C31_FocusConservation ==
    [][/\ pc = "idle" => (focus_stack' = <<>> /\ knowledge' = <<>>)
       /\ pc \in {"llm", "tools"} =>
            /\ Len(focus_stack') + Len(knowledge') =
                   Len(focus_stack) + Len(knowledge) +
                   (IF StartSignal THEN 1 ELSE 0)
            /\ StartSignal =>
                   /\ Len(focus_stack') = Len(focus_stack) + 1
                   /\ IsPrefix(focus_stack, focus_stack')
            /\ (CompleteSignal /\ focus_stack # <<>>) =>
                   /\ Len(focus_stack') = Len(focus_stack) - 1
                   /\ IsPrefix(focus_stack', focus_stack)
            /\ (~StartSignal /\ ~(CompleteSignal /\ focus_stack # <<>>)) =>
                   focus_stack' = focus_stack
            /\ Len(messages') <= Len(messages) =>
                   IsPrefix(focus_stack', focus_stack)]_vars

\* two focuses were opened and the inner one completed: the buffer was cut
\* while the outer marker stayed on the stack
C31_Witness ==
    /\ pc \in {"llm", "tools"}
    /\ compress.called
    /\ compress.messages_to_drop > 0
    /\ Len(focus_stack) = 1
    /\ Len(knowledge) = 1
    /\ knowledge[1].focus_description # focus_stack[1].description

\* ------------------------------------------------------------------ C32
\* C32: at every inference call of a focus agent, every marker on the stack
\* is anchored at an index that is at most the buffer length, and the
\* anchors do not decrease from the bottom of the stack to the top.
C32_AnchorsValid ==
    (agent = "focus" /\ AtInference) =>
        /\ \A i \in 1..Len(focus_stack) :
              focus_stack[i].start_message_index <= Len(messages)
        /\ \A i \in 1..(Len(focus_stack) - 1) :
              focus_stack[i].start_message_index <=
                  focus_stack[i + 1].start_message_index

\* ------------------------------------------------------------------ C33
\* C33: every buffer passed to an inference call has exactly one system
\* turn, at index 0, followed by the task's user turn at index 1, has no
\* two adjacent assistant turns, and ends with a user or a tool turn.
C33_BufferShape ==
    AtInference =>
        /\ Len(messages) >= 2
        /\ At(messages, 0).role = "system"
        /\ \A i \in 1..(Len(messages) - 1) : At(messages, i).role # "system"
        /\ At(messages, 1) = PlainMessage("user", Task)
        /\ \A i \in 0..(Len(messages) - 2) :
              ~(At(messages, i).role = "assistant"
                /\ At(messages, i + 1).role = "assistant")
        /\ Last(messages).role \in {"user", "tool"}

\* an inference call on a buffer that a completion has cut and rebuilt
C33_Witness ==
    /\ AtInference
    /\ agent = "focus"
    /\ compress.called
    /\ compress.messages_to_drop > 0
    /\ knowledge # <<>>
    /\ Last(messages).role = "user"
    /\ Len(messages) > 2

\* ------------------------------------------------------------------ C34
\* the text has the substring "::"
HasSeparator(t) == Find(Expand(t), <<":", ":">>) # 0

\* C34: when outcome and learnings have no "::", parse_focus_complete of the
\* output of complete_focus gives back outcome, learnings and next_action;
\* when the description has no "::", parse_focus_start of the output of
\* start_focus gives back the description and the goal.
C34_RoundTrip ==
    /\ (/\ tool_call.tool = "complete_focus"
        /\ ~HasSeparator(tool_call.outcome)
        /\ ~HasSeparator(tool_call.learnings)) =>
            parse_focus_complete(tool_result.output) =
                [some |-> TRUE, outcome |-> tool_call.outcome,
                 learnings |-> tool_call.learnings,
                 next_action |-> tool_call.next_action]
    /\ (/\ tool_call.tool = "start_focus"
        /\ ~HasSeparator(tool_call.description)) =>
            parse_focus_start(tool_result.output) =
                [some |-> TRUE, description |-> tool_call.description,
                 goal |-> tool_call.goal]

\* ------------------------------------------------------------------ C35
\* every result the dispatched call may give the focus agent is no focus
\* signal
NoFocusSignal ==
    \A r \in _execute_tool("focus", Head(pending)) :
        ~(r.success /\ r.output # <<>>
          /\ (parse_focus_start(r.output).some
              \/ parse_focus_complete(r.output).some))

\* what BaselineAgent.run does with the dispatched call in this state
BaselineDispatch ==
    \E r \in _execute_tool("baseline", Head(pending)) :
        /\ messages' = Append(messages, ToolMessage(Head(pending), r))
        /\ metrics' = CountTool("baseline", Head(pending), metrics)
        /\ pending' = Tail(pending)
        /\ IF Tail(pending) = <<>>
           THEN step' = step + 1 /\ pc' = "llm"
           ELSE step' = step /\ pc' = pc
        /\ result' = result

\* no focus signal has reached the agent during the run
Untagged ==
    /\ ~compress.called
    /\ focus_stack = <<>>
    /\ \A i \in 1..Len(messages) :
          messages[i].role = "tool" =>
              /\ ~StartsWith(messages[i].content, <<"Focus started: ">>)
              /\ messages[i].content # <<"Error: ">> \o NoActiveFocus.error

\* C35: a focus agent whose tool results carry no focus signal does at every
\* dispatch what the baseline agent does with the same call in the same
\* state, leaves stack and ledger alone, and records only snapshots with
\* zero compressions, each counting the buffer up to its assistant turn.
C35_BaselineEquivalence ==
    [][/\ (agent = "focus" /\ pc = "tools" /\ NoFocusSignal) =>
            /\ BaselineDispatch
            /\ focus_stack' = focus_stack /\ knowledge' = knowledge
       /\ (agent = "focus" /\ Untagged') =>
            /\ knowledge' = <<>>
            /\ metrics'.compressions = 0 /\ metrics'.messages_dropped = 0
            /\ \A k \in 1..Len(metrics'.trajectory) :
                  /\ metrics'.trajectory[k].compressions_so_far = 0
                  /\ metrics'.trajectory[k].message_count <= Len(messages')
                  /\ At(messages', metrics'.trajectory[k].message_count - 1).role
                         = "assistant"]_vars

\* a focus agent has run two batches of plain tool calls to the step limit
C35_Witness ==
    /\ agent = "focus"
    /\ Untagged
    /\ pc = "returned"
    /\ ~result.success
    /\ Len(metrics.trajectory) = 2
    /\ metrics.tool_calls >= 2
    /\ Last(messages).role = "tool"

\* ------------------------------------------------------------------ C36
IsReminder(m) == m = PlainMessage("user", FOCUS_REMINDER)

\* the index of the last continuation turn among the first k turns, 0 if none
IsContinuation(m) ==
    m.role = "user" /\ StartsWith(m.content, <<"Focus completed: ">>)

LastCompression(msgs, k) ==
    IF \E i \in 1..k : IsContinuation(msgs[i])
    THEN CHOOSE i \in 1..k :
             /\ IsContinuation(msgs[i])
             /\ \A h \in (i + 1)..k : ~IsContinuation(msgs[h])
    ELSE 0

\* the results of tools other than the focus tools among the first k turns
\* that were appended after the last compression signal
SinceCompression(msgs, k) ==
    Cardinality({i \in (LastCompression(msgs, k) + 1)..k :
                    /\ msgs[i].role = "tool"
                    /\ msgs[i].name \notin {"start_focus", "complete_focus"}})

\* turn j is an assistant turn followed by the results of all its calls
AnsweredBatch(msgs, j) ==
    /\ msgs[j].role = "assistant"
    /\ msgs[j].tool_calls # <<>>
    /\ j + Len(msgs[j].tool_calls) <= Len(msgs)
    /\ \A i \in (j + 1)..(j + Len(msgs[j].tool_calls)) : msgs[i].role = "tool"

\* C36: the counter of a SWEBenchFocusAgent is the number of results of
\* non-focus tools appended since the last compression signal; a reminder
\* in the buffer stands directly after the last result of an answered batch
\* at whose end that number was at least the threshold; and a step that
\* ends a batch without a compression appends the reminder whenever the
\* counter has reached the threshold.
C36_CompressionReminder ==
    [][agent = "swebench_focus" =>
        /\ _tool_calls_since_focus' = SinceCompression(messages', Len(messages'))
        /\ \A i \in 1..Len(messages') :
              IsReminder(messages'[i]) =>
                  /\ \E j \in 1..(i - 2) :
                        /\ AnsweredBatch(messages', j)
                        /\ j + Len(messages'[j].tool_calls) = i - 1
                  /\ SinceCompression(messages', i - 1) >= _reminder_threshold
        /\ (/\ pc = "tools" /\ pc' = "llm"
            /\ ~IsContinuation(Last(messages'))
            /\ _tool_calls_since_focus' >= _reminder_threshold) =>
                /\ IsReminder(Last(messages'))
                /\ Len(messages') = Len(messages) + 2]_vars

\* the agent was reminded twice, the second time after a batch with no bash
\* call, has completed a focus since and run one more bash call unreminded
C36_Witness ==
    /\ agent = "swebench_focus"
    /\ pc = "llm"
    /\ knowledge # <<>>
    /\ _tool_calls_since_focus = 1
    /\ Last(messages).role = "tool"
    /\ \E i \in 1..Len(messages) :
          /\ IsReminder(messages[i])
          /\ messages[i - 1].name = "bash"

\* ------------------------------------------- the sequential experiment
\* run_final_experiment.main awaits one run_single_instance call after the
\* other, baseline then focus for each instance, and appends what each
\* returns to all_results.
FinalMain ==
    /\ runs = <<>>
    /\ \E n \in 1..Len(InstanceIds) :
        /\ 2 * n <= MaxRuns
        /\ runs' = [k \in 1..(2 * n) |->
                       QueuedRun(InstanceIds[((k - 1) \div 2) + 1],
                                 <<"baseline", "focus">>[((k - 1) % 2) + 1])]
    /\ UNCHANGED <<results, tmp, max_workers, agentvars, toolvars, swevars>>

\* run_single_instance up to the mkdtemp call, once the call before it has
\* been appended
SingleStart(i) ==
    /\ runs[i].phase = "queued"
    /\ \A j \in 1..(i - 1) : runs[j].phase = "recorded"
    /\ \E w \in mkdtemp(tmp, runs[i].instance) :
        /\ tmp' = mkdir(tmp, w, <<>>)
        /\ runs' = [runs EXCEPT ![i].phase = "setup", ![i].workspace = w]
    /\ UNCHANGED <<results, max_workers, agentvars, toolvars, swevars>>

\* the `except Exception` clause of run_single_instance: the dict with the
\* error is returned
SingleRaised(i, said, a) ==
    /\ runs' = [runs EXCEPT ![i].replies = said,
                            ![i].agent_state = a,
                            ![i].phase = "returned",
                            ![i].outcome = [patch |-> <<>>,
                                            metrics |-> NoMetrics,
                                            error |-> "error"]]
    /\ tmp' = tmp

\* setup_swebench_workspace returns True, returns False or raises; a
\* returned value is not looked at and the agent is constructed
SingleSetup(i) ==
    /\ runs[i].phase = "setup"
    /\ \E setup \in {"True", "False", "raised"} :
        IF setup = "raised"
        THEN SingleRaised(i, <<"setup raised">>, runs[i].agent_state)
        ELSE /\ runs' = [runs EXCEPT
                            ![i].phase = "running",
                            ![i].agent_state = NewAgent,
                            ![i].replies = IF setup = "True" THEN <<>>
                                           ELSE <<"setup failed">>]
             /\ tmp' = mkdir(tmp, runs[i].workspace, <<>>)
    /\ UNCHANGED <<results, max_workers, agentvars, toolvars, swevars>>

\* agent.run has returned: `git diff HEAD` is run, and when it has not
\* raised the workspace is removed and the dict returned
SingleExtract(i, said, a) ==
    \E extracted \in BOOLEAN :
        IF extracted
        THEN /\ runs' = [runs EXCEPT ![i].replies = said,
                                     ![i].agent_state = a,
                                     ![i].phase = "returned",
                                     ![i].outcome =
                                         [patch |-> git_diff(tmp, runs[i].workspace),
                                          metrics |-> MetricsOf(a),
                                          error |-> "None"]]
             /\ tmp' = rmtree(tmp, runs[i].workspace)
        ELSE SingleRaised(i, Append(said, "git diff raised"), a)

\* one step of agent.run inside run_single_instance
SingleStep(i) ==
    /\ runs[i].phase = "running"
    /\ runs[i].agent_state.llm_calls < MaxSteps
    /\ \E reply \in Replies(runs[i].agent_type) :
        IF reply = "raise"
        THEN SingleRaised(i, Append(runs[i].replies, reply),
                          [runs[i].agent_state EXCEPT !.llm_calls = @ + 1])
        ELSE IF reply = "done"
        THEN SingleExtract(i, Append(runs[i].replies, reply),
                           [runs[i].agent_state EXCEPT !.llm_calls = @ + 1])
        ELSE /\ runs' = [runs EXCEPT
                            ![i].replies = Append(runs[i].replies, reply),
                            ![i].agent_state =
                                IF reply = "edit"
                                THEN [@ EXCEPT !.llm_calls = @ + 1,
                                               !.messages = @ + 2]
                                ELSE [@ EXCEPT !.llm_calls = @ + 1,
                                               !.knowledge = @ + 1,
                                               !.compressions = @ + 1,
                                               !.messages = @ + 2]]
             /\ tmp' = mkdir(tmp, runs[i].workspace,
                             Append(git_diff(tmp, runs[i].workspace),
                                    runs[i].agent_type))
    /\ UNCHANGED <<results, max_workers, agentvars, toolvars, swevars>>

\* agent.run returns at max_steps
SingleFinish(i) ==
    /\ runs[i].phase = "running"
    /\ runs[i].agent_state.llm_calls >= MaxSteps
    /\ SingleExtract(i, runs[i].replies, runs[i].agent_state)
    /\ UNCHANGED <<results, max_workers, agentvars, toolvars, swevars>>

\* all_results.append(...)
SingleRecord(i) ==
    /\ runs[i].phase = "returned"
    /\ results' = Append(results,
                      [instance_id |-> runs[i].instance,
                       agent_type |-> runs[i].agent_type,
                       patch |-> runs[i].outcome.patch,
                       metrics |-> runs[i].outcome.metrics,
                       error |-> runs[i].outcome.error])
    /\ runs' = [runs EXCEPT ![i].phase = "recorded"]
    /\ UNCHANGED <<tmp, max_workers, agentvars, toolvars, swevars>>

FinalNext ==
    \/ FinalMain
    \/ \E i \in 1..Len(runs) : SingleStart(i)
    \/ \E i \in 1..Len(runs) : SingleSetup(i)
    \/ \E i \in 1..Len(runs) : SingleStep(i)
    \/ \E i \in 1..Len(runs) : SingleFinish(i)
    \/ \E i \in 1..Len(runs) : SingleRecord(i)

\* the main() of run_final_experiment
Final == ToolsInit /\ [][FinalNext]_vars

\* ------------------------------------------------------------------ C37
\* C37: when the driver's call for a run returns, on whatever path, the
\* workspace directory created for the run no longer exists.
C37_WorkspaceTeardown ==
    [][\A i \in 1..Len(runs) :
          (/\ Len(runs') = Len(runs)
           /\ runs[i].phase \in {"setup", "running"}
           /\ runs'[i].phase = "returned") =>
              runs[i].workspace \notin DOMAIN tmp']_vars
====
